---- MODULE Spec2Model ----
(***************************************************************************)
(* A state-machine model of chutesai/sek8s.  Each component of the          *)
(* repository has its own variables, its own actions and its own            *)
(* specification; a specification leaves the other components' variables    *)
(* at their initial values.                                                 *)
(*                                                                          *)
(*   SpecAuth   attestation proxy: authentication and forwarding            *)
(*   SpecReplay attestation proxy: replayed requests as time passes         *)
(*   SpecProxy  attestation proxy: failure counter and /health              *)
(*   SpecCloudInit  cloud-init validator: one run of the process            *)
(*   SpecAdmission  admission controller and OPA client: one review         *)
(*   SpecCosign     cosign validator: one review                            *)
(*   SpecNonce      nonce formatting utility: calls                         *)
(*   SpecAttestation  attestation server: requests                          *)
(*   SpecStatus     system status server: log requests and their cache      *)
(*   SpecWebServer  generic web server: construction and run                *)
(*   SpecCommand    system status server: external commands and timeouts    *)
(*   SpecOverview   system status server: GET /overview and its caches     *)
(*   SpecGpu        GPU device provider: calls of get_device_info           *)
(*                                                                          *)
(* Text is modelled as a sequence of tokens (a token is a character where   *)
(* the code looks at characters, a whole word where it only compares).      *)
(* None and "" are both the empty sequence where the code tests truthiness. *)
(***************************************************************************)
EXTENDS Integers, Sequences, FiniteSets, TLC

\* ------------------------------------------------------------------ bounds
\* How many times the clock advances in a behaviour.
MaxTicks == 2
\* The clock's reading when the proxy starts.
StartTime == 100
\* Cap of the consecutive-failure counter (the code's counter is unbounded).
MaxFailures == 6
\* The longest run of one character in a nonce given to the formatting utility.
MaxNonceLen == 33
\* How many answers the cache of get_service_logs holds at a time (the
\* code's cache is unbounded).
MaxCached == 1
\* command_timeout_seconds of the system status server, in seconds.
CommandTimeout == 2

\* ---------------------------------------------------------------- state
VARIABLES
  \* attestation proxy
  now,                          \* int(time.time())
  ticks,                        \* how often the clock has advanced
  consecutive_socket_failures,  \* AttestationProxyServer.consecutive_socket_failures
  socket_path,                  \* what is at SOCKET_PATH on the filesystem
  reqs,                         \* the requests being served, by connection slot
  health,                       \* the last answer of GET /health
  captured,                     \* the first authenticated external request, as seen on the wire
  reauth,                       \* the captured request was authenticated again
  \* cloud-init validator
  ci_pc,                        \* where the validator process is
  ci_euid,                      \* os.geteuid()
  ci_file,                      \* what is at USER_DATA_FILE
  ci_boot_file,                 \* what was at USER_DATA_FILE when the process started
  ci_backup_dir,                \* the files in BACKUP_DIR
  ci_result,                    \* what validate_cloud_init_data returned
  ci_exit,                      \* the process's exit status and where it was set
  ci_trace,                     \* the steps the process has taken
  \* admission controller and OPA policy client
  adm_pc,                       \* where validate_request is
  adm_review,                   \* the admission review it was called with
  adm_files,                    \* the *.rego files of the policy directory, in glob order
  adm_violations,               \* evaluate_policies' violations
  adm_tmp,                      \* the temporary input files that exist, by policy file
  adm_log,                      \* what each evaluated policy file did
  adm_response,                 \* what validate_request returned
  \* cosign validator
  cos_pc,                       \* where validate is
  cos_request,                  \* the request's kind and operation
  cos_images,                   \* the images extracted from the object
  cos_violations,               \* validate's violations
  cos_log,                      \* what each processed image did
  cos_result,                   \* the ValidationResult returned
  \* nonce formatting utility
  nv_pc,                        \* whether validate_and_format_nonce has been called
  nv_nonce,                     \* the nonce it was called with
  nv_result,                    \* what it returned or raised
  \* attestation server
  ats_inventory,                \* the GPUs the management library reports
  ats_request,                  \* the last request
  ats_raised,                   \* the exception its handler caught, if any
  ats_response,                 \* the answer to it
  \* system status server
  st_config,                    \* the SystemStatusConfig the server was built with
  st_cache,                     \* the entries of get_service_logs' cache
  st_last,                      \* the last request, what ran for it and its answer
  \* generic web server
  ws_pc,                        \* where the server process is
  ws_config,                    \* the ServerConfig the server was built with
  ws_serving,                   \* what uvicorn.run was called with, or what run raised
  \* system status server: commands in flight
  cmd_calls,                    \* the calls of _run_command, by request
  \* attestation proxy: the shared clients
  unix_client,                  \* AttestationProxyServer.unix_client, by the number of its creation
  http_client,                  \* AttestationProxyServer.http_client
  unix_client_lock,             \* who holds AttestationProxyServer.unix_client_lock
  \* GET /overview of the system status server
  ov_pc,                        \* where the overview call is
  ov_tasks,                     \* what each gathered service sub-query returned
  ov_gpu,                       \* what nvidia_smi returned
  ov_response,                  \* the answer of the overview call
  ov_cache,                     \* the overview response the cache decorator holds
  ov_smi_cache,                 \* the nvidia_smi response the cache decorator holds
  \* GPU device provider
  gp_pc,                        \* where get_device_info is
  gp_lib,                       \* how many nvmlInit calls have not been matched by nvmlShutdown
  gp_calls,                     \* how many times get_device_info has been called
  gp_devices,                   \* nvmlDeviceGetCount()
  gp_gpus,                      \* the GPUs collected so far
  gp_trace,                     \* the library calls of the current call, in order
  gp_raised                     \* the class of the exception the call raised

proxyVars ==
  <<now, ticks, consecutive_socket_failures, socket_path, reqs, health, captured, reauth>>

ciVars == <<ci_pc, ci_euid, ci_file, ci_boot_file, ci_backup_dir, ci_result, ci_exit, ci_trace>>

admVars ==
  <<adm_pc, adm_review, adm_files, adm_violations, adm_tmp, adm_log, adm_response>>

cosVars == <<cos_pc, cos_request, cos_images, cos_violations, cos_log, cos_result>>

nvVars == <<nv_pc, nv_nonce, nv_result>>

atsVars == <<ats_inventory, ats_request, ats_raised, ats_response>>

stVars == <<st_config, st_cache, st_last>>

wsVars == <<ws_pc, ws_config, ws_serving>>

cmdVars == <<cmd_calls>>

clientVars == <<unix_client, http_client, unix_client_lock>>

ovVars == <<ov_pc, ov_tasks, ov_gpu, ov_response, ov_cache, ov_smi_cache>>

gpVars == <<gp_pc, gp_lib, gp_calls, gp_devices, gp_gpus, gp_trace, gp_raised>>

vars == <<proxyVars, ciVars, admVars, cosVars, nvVars, atsVars, stVars, wsVars, cmdVars, clientVars, ovVars, gpVars>>

\* ------------------------------------------------------ generic text helpers
Digits == <<"0", "1", "2", "3", "4", "5", "6", "7", "8", "9">>

IsDigit(c) == \E i \in 1..10 : Digits[i] = c

DigitVal(c) == (CHOOSE i \in 1..10 : Digits[i] = c) - 1

RECURSIVE DigitsVal(_)
DigitsVal(s) ==
  IF s = <<>> THEN 0
  ELSE 10 * DigitsVal(SubSeq(s, 1, Len(s) - 1)) + DigitVal(s[Len(s)])

RECURSIVE NatToStr(_)
NatToStr(n) ==
  IF n < 10 THEN <<Digits[n + 1]>>
  ELSE NatToStr(n \div 10) \o <<Digits[(n % 10) + 1]>>

LowerLetters ==
  {"a", "b", "c", "d", "e", "f", "g", "h", "i", "j", "k", "l", "m",
   "n", "o", "p", "q", "r", "s", "t", "u", "v", "w", "x", "y", "z"}

UpperLetters ==
  {"A", "B", "C", "D", "E", "F", "G", "H", "I", "J", "K", "L", "M",
   "N", "O", "P", "Q", "R", "S", "T", "U", "V", "W", "X", "Y", "Z"}

IsAlnum(c) == IsDigit(c) \/ c \in LowerLetters \/ c \in UpperLetters

\* str(n) of an integer, as a client formats a Unix timestamp.
IntToStr(n) == IF n < 0 THEN <<"-">> \o NatToStr(0 - n) ELSE NatToStr(n)

\* sep.join(parts) for a sequence of texts.
RECURSIVE Join(_, _)
Join(parts, sep) ==
  IF parts = <<>> THEN <<>>
  ELSE IF Len(parts) = 1 THEN parts[1]
  ELSE parts[1] \o sep \o Join(Tail(parts), sep)

\* ======================================================================
\* Attestation proxy (sek8s/services/attestation_proxy.py)
\* ======================================================================
MAX_CONSECUTIVE_FAILURES == 5
EXTERNAL_PORT == 8443
INTERNAL_PORT == 8444
NONCE_MAX_AGE_SECONDS == 30
\* request.scope["server"] is (host, port); <<>> when the scope has none.
NoServerInfo(req) == Len(req.server) < 2
ServerPort(req) == req.server[2]

\* ALLOWED_VALIDATOR_HOTKEYS as loaded by __init__: one allowed validator.
allowed_validator_hotkeys == {<<"hkA">>}

\* int(nonce): an optional sign followed by at least one decimal digit.
ParseInt(s) ==
  LET signed == s # <<>> /\ s[1] \in {"-", "+"}
      body == IF signed THEN Tail(s) ELSE s
  IN IF body # <<>> /\ \A i \in 1..Len(body) : IsDigit(body[i])
     THEN [ok |-> TRUE,
           val |-> IF signed /\ s[1] = "-" THEN 0 - DigitsVal(body) ELSE DigitsVal(body)]
     ELSE [ok |-> FALSE, val |-> 0]

\* bytes.fromhex(signature) succeeds: the header is the hex form of a signature.
IsHex(signature) == signature # <<>> /\ signature[1] = "sig"

\* keypair.verify(signature_string, signature_bytes) for the SR25519 key of
\* `validator`: the signature was made by that key over exactly that string.
KeypairVerify(validator, signature_string, signature) ==
  /\ signature[2] = validator
  /\ signature[3] = signature_string

\* What a holder of `signer`'s key sends as X-Chutes-Signature for `message`.
Sign(signer, message) == <<"sig", signer, message>>

AuthOk == [ok |-> TRUE, status |-> 200, detail |-> "authenticated"]
HTTPException(status, detail) == [ok |-> FALSE, status |-> status, detail |-> detail]

\* The string the validator signs: purpose is the body digest when the
\* middleware computed one, else the URL path.
Purpose(req) == IF req.body_sha256 # <<>> THEN req.body_sha256 ELSE req.path

SignatureString(req) == Join(<<req.validator, req.nonce, Purpose(req)>>, <<":">>)

\* Faulty variant: a nonce of exactly the maximum age is still accepted.
verify_validator_signature_offbyone(req, t) ==
  IF req.validator \notin allowed_validator_hotkeys
  THEN HTTPException(403, "Validator not authorized")
  ELSE LET n == ParseInt(req.nonce) IN
    IF ~n.ok THEN HTTPException(401, "Invalid nonce format (must be Unix timestamp)")
    ELSE IF t - n.val > NONCE_MAX_AGE_SECONDS THEN HTTPException(401, "Nonce expired")
    ELSE IF t - n.val < 0 THEN HTTPException(401, "Invalid nonce (future timestamp)")
    ELSE IF ~IsHex(req.signature)
      THEN HTTPException(401, "Invalid signature format (must be hex)")
    ELSE IF ~KeypairVerify(req.validator, SignatureString(req), req.signature)
      THEN HTTPException(401, "Signature verification failed")
    ELSE AuthOk

\* _verify_validator_signature at time t = int(time.time()).
verify_validator_signature(req, t) ==
  IF req.validator \notin allowed_validator_hotkeys
  THEN HTTPException(403, "Validator not authorized")
  ELSE LET n == ParseInt(req.nonce) IN
    IF ~n.ok THEN HTTPException(401, "Invalid nonce format (must be Unix timestamp)")
    ELSE IF t - n.val >= NONCE_MAX_AGE_SECONDS THEN HTTPException(401, "Nonce expired")
    ELSE IF t - n.val < 0 THEN HTTPException(401, "Invalid nonce (future timestamp)")
    ELSE IF ~IsHex(req.signature)
      THEN HTTPException(401, "Invalid signature format (must be hex)")
    \* the 401 "Invalid signature" raised inside the try is itself caught by
    \* `except Exception` and re-raised with this detail
    ELSE IF ~KeypairVerify(req.validator, SignatureString(req), req.signature)
      THEN HTTPException(401, "Signature verification failed")
    ELSE AuthOk

\* Faulty variant: a request on an unexpected port is let through.
verify_auth_anyport(req, t) ==
  IF NoServerInfo(req) THEN HTTPException(500, "Unable to determine request port")
  ELSE IF ServerPort(req) = EXTERNAL_PORT THEN
    IF req.validator = <<>> \/ req.nonce = <<>> \/ req.signature = <<>>
    THEN HTTPException(401, "External requests require: X-Validator-Hotkey, X-Nonce, X-Signature")
    ELSE verify_validator_signature(req, t)
  ELSE AuthOk

\* verify_auth, the dependency of both proxy routes.
verify_auth(req, t) ==
  IF NoServerInfo(req) THEN HTTPException(500, "Unable to determine request port")
  ELSE IF ServerPort(req) = EXTERNAL_PORT THEN
    IF req.validator = <<>> \/ req.nonce = <<>> \/ req.signature = <<>>
    THEN HTTPException(401, "External requests require: X-Validator-Hotkey, X-Nonce, X-Signature")
    ELSE verify_validator_signature(req, t)
  ELSE IF ServerPort(req) = INTERNAL_PORT THEN AuthOk
  ELSE HTTPException(403, "Request on invalid port")

\* service_name.replace("-", "").replace("_", "").isalnum()
ValidServiceName(name) ==
  LET kept == SelectSeq(name, LAMBDA c : c \notin {"-", "_"})
  IN kept # <<>> /\ \A i \in 1..Len(kept) : IsAlnum(kept[i])

\* Two requests can be in flight at once (one per port, or two on one port).
Slots == {1, 2}

NoReq ==
  [server |-> <<>>, route |-> "none", service_name |-> <<>>, path |-> <<>>,
   validator |-> <<>>, nonce |-> <<>>, signature |-> <<>>, body_sha256 |-> <<>>]

Idle ==
  [pc |-> "idle", req |-> NoReq, auth |-> FALSE, t |-> 0, tries |-> 0,
   unix |-> FALSE, status |-> 0, last |-> "none", clients |-> <<>>]

\* request.url.path of the two proxy routes.
ReqPath(route, service_name) ==
  IF route = "server" THEN <<"/server/", "quote">>
  ELSE <<"/service/">> \o service_name \o <<"/", "run">>

Request(server, route, service_name, validator, nonce, signature, body_sha256) ==
  [server |-> server, route |-> route, service_name |-> service_name,
   path |-> ReqPath(route, service_name), validator |-> validator, nonce |-> nonce,
   signature |-> signature, body_sha256 |-> body_sha256]

GoodService == <<"c", "h", "-", "1">>
BadService == <<"a", ".", "b">>

\* The X-Chutes-Signature a client sends with a request whose other fields
\* are r: none, not hex, the right one, one by another key, one over another
\* purpose.
SignatureKinds == {"absent", "nothex", "good", "wrongkey", "wrongpurpose"}

SignatureOf(r, kind) ==
  CASE kind = "absent" -> <<>>
    [] kind = "nothex" -> <<"zz">>
    [] kind = "good" -> Sign(r.validator, SignatureString(r))
    [] kind = "wrongkey" -> Sign(<<"hkX">>, SignatureString(r))
    [] OTHER -> Sign(r.validator, Join(<<r.validator, r.nonce, <<"/other">>>>, <<":">>))

\* The X-Chutes-Nonce a client sends at time t: none, not a number, one just
\* expired, the oldest still fresh, the current second, one second ahead.
NonceKinds == {"absent", "text", "expired", "oldest", "current", "future"}

NonceOf(t, kind) ==
  CASE kind = "absent" -> <<>>
    [] kind = "text" -> <<"a", "b">>
    [] kind = "expired" -> IntToStr(t - NONCE_MAX_AGE_SECONDS)
    [] kind = "oldest" -> IntToStr(t - NONCE_MAX_AGE_SECONDS + 1)
    [] kind = "current" -> IntToStr(t)
    [] OTHER -> IntToStr(t + 1)

Signed(r, kind) == [r EXCEPT !.signature = SignatureOf(r, kind)]

\* A request arriving on the external port at time t.
ExternalRequest(t, route, v, nonceKind, b, sigKind) ==
  Signed(Request(<<"0.0.0.0", EXTERNAL_PORT>>, route, GoodService, v,
                 NonceOf(t, nonceKind), <<>>, b), sigKind)

\* A request arriving elsewhere: the internal port, a port the proxy does not
\* know, or a scope without server info; without headers or with valid ones.
Servers == {<<>>, <<"0.0.0.0", INTERNAL_PORT>>, <<"0.0.0.0", 80>>}

Targets ==
  {<<"server", GoodService>>, <<"service", GoodService>>,
   <<"service", BadService>>, <<"service", <<"-">>>>}

OtherRequest(t, sv, target, withHeaders) ==
  IF withHeaders
  THEN Signed(Request(sv, target[1], target[2], <<"hkA">>, IntToStr(t), <<>>, <<>>), "good")
  ELSE Request(sv, target[1], target[2], <<>>, <<>>, <<>>, <<>>)

ProxyInit ==
  /\ now = StartTime
  /\ ticks = 0
  /\ consecutive_socket_failures = 0
  /\ socket_path = "socket"
  /\ reqs = [s \in Slots |-> Idle]
  /\ health = [status |-> 0, content |-> "", socket_valid |-> FALSE, failures |-> 0, n |-> 0]
  /\ captured = NoReq
  /\ reauth = FALSE

\* The clock advances by a second, or by just under the nonce window.
Tick(d) ==
  /\ ticks < MaxTicks
  /\ d \in {1, NONCE_MAX_AGE_SECONDS - 1}
  /\ now' = now + d
  /\ ticks' = ticks + 1
  /\ UNCHANGED <<consecutive_socket_failures, socket_path, reqs, health, captured, reauth, ciVars, admVars, cosVars, nvVars, atsVars, stVars, wsVars, cmdVars, clientVars, ovVars, gpVars>>

\* The slot of a request after the route's dependency (verify_auth) and the
\* handler up to its call of proxy_request.
Routed(r, t) ==
  LET a == verify_auth(r, t)
      base == [pc |-> "done", req |-> r, auth |-> a.ok, t |-> t, tries |-> 0,
               unix |-> FALSE, status |-> a.status, last |-> "none", clients |-> <<>>]
  IN IF ~a.ok THEN base
     ELSE IF r.route = "server"
       THEN [base EXCEPT !.pc = "attempt", !.unix = TRUE, !.status = 0]
     ELSE IF ~ValidServiceName(r.service_name)
       THEN [base EXCEPT !.status = 400]
     ELSE [base EXCEPT !.pc = "attempt", !.status = 0]

\* A request to /server/{path} or /service/{service_name}/{path} arrives.
Receive(s, r) ==
  /\ reqs[s].pc = "idle"
  /\ reqs' = [reqs EXCEPT ![s] = Routed(r, now)]
  /\ LET authed == ~NoServerInfo(r) /\ ServerPort(r) = EXTERNAL_PORT /\ verify_auth(r, now).ok
     IN /\ captured' = IF authed /\ captured = NoReq THEN r ELSE captured
        /\ reauth' = (reauth \/ (authed /\ captured # NoReq
                                   /\ r.validator = captured.validator
                                   /\ r.nonce = captured.nonce))
  /\ UNCHANGED <<now, ticks, consecutive_socket_failures, socket_path, health, ciVars, admVars, cosVars, nvVars, atsVars, stVars, wsVars, cmdVars, clientVars, ovVars, gpVars>>

\* What one call of client.request can end in.
Outcomes == {"response200", "response500", "ConnectError", "RequestError", "Exception"}

IsResponse(outcome) == outcome \in {"response200", "response500"}

\* The clients after the application's startup (_lifespan).
ClientsStarted ==
  /\ unix_client = <<"unix client", 1>>
  /\ http_client = <<"http client", 1>>
  /\ unix_client_lock = "unlocked"

\* client = self.unix_client if use_unix_socket else self.http_client
ClientOf(use_unix_socket) == IF use_unix_socket THEN unix_client ELSE http_client

\* Faulty variant: only a 200 response resets the counter.
CounterAfter_only_200(count, use_unix_socket, outcome) ==
  IF ~use_unix_socket THEN count
  ELSE IF outcome = "response200" THEN 0
  ELSE IF IsResponse(outcome) THEN count
  ELSE count + 1

\* The counter after one attempt of proxy_request.
CounterAfter(count, use_unix_socket, outcome) ==
  IF ~use_unix_socket THEN count
  ELSE IF IsResponse(outcome) THEN 0
  ELSE count + 1

\* Faulty variant: backoff is given max_tries=3.
AfterAttempt_three_tries(slot, outcome, late) ==
  LET tried == [slot EXCEPT !.tries = @ + 1, !.last = outcome,
                            !.clients = Append(@, ClientOf(slot.unix))] IN
  IF outcome = "response200" THEN [tried EXCEPT !.pc = "done", !.status = 200]
  ELSE IF outcome = "response500" THEN [tried EXCEPT !.pc = "done", !.status = 500]
  ELSE IF outcome = "ConnectError" THEN
    IF tried.tries < 3 /\ ~late THEN tried
    ELSE [tried EXCEPT !.pc = "done", !.status = 500]
  ELSE IF outcome = "RequestError" THEN [tried EXCEPT !.pc = "done", !.status = 502]
  ELSE [tried EXCEPT !.pc = "done", !.status = 500]

\* The slot after one attempt of proxy_request under backoff.on_exception
\* (ConnectError, max_tries=2, max_time=5); `late`: 5 seconds have elapsed.
AfterAttempt(slot, outcome, late) ==
  LET tried == [slot EXCEPT !.tries = @ + 1, !.last = outcome,
                            !.clients = Append(@, ClientOf(slot.unix))] IN
  IF outcome = "response200" THEN [tried EXCEPT !.pc = "done", !.status = 200]
  ELSE IF outcome = "response500" THEN [tried EXCEPT !.pc = "done", !.status = 500]
  ELSE IF outcome = "ConnectError" THEN
    \* backoff retries, or gives up and the ConnectError leaves the handler:
    \* the framework answers 500
    IF tried.tries < 2 /\ ~late THEN tried
    ELSE [tried EXCEPT !.pc = "done", !.status = 500]
  ELSE IF outcome = "RequestError" THEN [tried EXCEPT !.pc = "done", !.status = 502]
  ELSE [tried EXCEPT !.pc = "done", !.status = 500]

\* One attempt of proxy_request for the request in slot s.
Attempt(s, outcome, late) ==
  /\ reqs[s].pc = "attempt"
  /\ CounterAfter(consecutive_socket_failures, reqs[s].unix, outcome) <= MaxFailures
  /\ consecutive_socket_failures' =
       CounterAfter(consecutive_socket_failures, reqs[s].unix, outcome)
  /\ reqs' = [reqs EXCEPT ![s] = AfterAttempt(reqs[s], outcome, late)]
  /\ UNCHANGED <<now, ticks, socket_path, health, captured, reauth, ciVars, admVars, cosVars, nvVars, atsVars, stVars, wsVars, cmdVars, clientVars, ovVars, gpVars>>

\* The response is sent and the connection slot is free again.
Finish(s) ==
  /\ reqs[s].pc = "done"
  /\ reqs' = [reqs EXCEPT ![s] = Idle]
  /\ UNCHANGED <<now, ticks, consecutive_socket_failures, socket_path, health, captured, reauth, ciVars, admVars, cosVars, nvVars, atsVars, stVars, wsVars, cmdVars, clientVars, ovVars, gpVars>>

\* _is_valid_socket: the path exists, stat succeeds and it is a socket.
is_valid_socket(at_path) == at_path = "socket"

\* Faulty variant: the failure threshold is tested before the socket.
health_check_counter_first(at_path, count) ==
  LET socket_valid == is_valid_socket(at_path)
      too_many_failures == count >= MAX_CONSECUTIVE_FAILURES
  IN IF too_many_failures
       THEN [status |-> 503, content |-> "unhealthy: {n} consecutive socket failures",
             socket_valid |-> socket_valid, failures |-> count]
     ELSE IF ~socket_valid
       THEN [status |-> 503, content |-> "unhealthy: unix socket unavailable",
             socket_valid |-> socket_valid, failures |-> count]
     ELSE [status |-> 200, content |-> "healthy",
           socket_valid |-> socket_valid, failures |-> count]

\* health_check: the answer, with the two values it read.
health_check(at_path, count) ==
  LET socket_valid == is_valid_socket(at_path)
      too_many_failures == count >= MAX_CONSECUTIVE_FAILURES
  IN IF ~socket_valid
       THEN [status |-> 503, content |-> "unhealthy: unix socket unavailable",
             socket_valid |-> socket_valid, failures |-> count]
     ELSE IF too_many_failures
       THEN [status |-> 503, content |-> "unhealthy: {n} consecutive socket failures",
             socket_valid |-> socket_valid, failures |-> count]
     ELSE [status |-> 200, content |-> "healthy",
           socket_valid |-> socket_valid, failures |-> count]

\* GET /health (either port, no dependency on verify_auth); n counts the
\* answers modulo 2.
HealthCheck ==
  /\ LET r == health_check(socket_path, consecutive_socket_failures)
     IN health' = [status |-> r.status, content |-> r.content,
                   socket_valid |-> r.socket_valid, failures |-> r.failures,
                   n |-> 1 - health.n]
  /\ UNCHANGED <<now, ticks, consecutive_socket_failures, socket_path, reqs, captured, reauth, ciVars, admVars, cosVars, nvVars, atsVars, stVars, wsVars, cmdVars, clientVars, ovVars, gpVars>>

\* The host replaces what is at SOCKET_PATH: a socket, nothing, a regular
\* file or directory (a stale mount), or a path whose stat raises OSError.
SocketChange(k) ==
  /\ k \in {"socket", "absent", "notsocket", "staterror"}
  /\ k # socket_path
  /\ socket_path' = k
  /\ UNCHANGED <<now, ticks, consecutive_socket_failures, reqs, health, captured, reauth, ciVars, admVars, cosVars, nvVars, atsVars, stVars, wsVars, cmdVars, clientVars, ovVars, gpVars>>

\* ------------------------------------------------- claims on the proxy

\* What the claims call an authenticated request: it is read off the stored
\* request and the time it arrived, not off verify_auth's answer.
HeadersPresent(r) == r.validator # <<>> /\ r.nonce # <<>> /\ r.signature # <<>>

NonceFresh(r, t) ==
  LET n == ParseInt(r.nonce)
  IN n.ok /\ t - n.val >= 0 /\ t - n.val < NONCE_MAX_AGE_SECONDS

SignatureVerifies(r) ==
  r.signature = Sign(r.validator, Join(<<r.validator, r.nonce, Purpose(r)>>, <<":">>))

OnPort(r, port) == Len(r.server) >= 2 /\ r.server[2] = port

PassesValidatorAuth(r, t) ==
  /\ HeadersPresent(r)
  /\ r.validator \in allowed_validator_hotkeys
  /\ NonceFresh(r, t)
  /\ SignatureVerifies(r)

MayBeForwarded(slot) ==
  \/ OnPort(slot.req, INTERNAL_PORT)
  \/ OnPort(slot.req, EXTERNAL_PORT) /\ PassesValidatorAuth(slot.req, slot.t)

\* C1: a request to /server/... or /service/... reaches proxy_request (has an
\* upstream attempt made or pending) only if it came in on the internal port
\* or came in on the external port and passed validator authentication; any
\* other request is answered 401, 403 or 500 with no attempt, and every
\* change of the consecutive-failure counter is an attempt of a request that
\* was allowed through.
C1_ForwardOnlyIfAuthenticated ==
  /\ [](\A s \in Slots :
          /\ (reqs[s].pc = "attempt" \/ reqs[s].tries > 0) => MayBeForwarded(reqs[s])
          /\ (reqs[s].pc # "idle" /\ ~MayBeForwarded(reqs[s])) =>
               /\ reqs[s].pc = "done"
               /\ reqs[s].tries = 0
               /\ reqs[s].status \in {401, 403, 500})
  /\ [][consecutive_socket_failures' # consecutive_socket_failures =>
          \E s \in Slots :
            /\ reqs[s].pc = "attempt"
            /\ MayBeForwarded(reqs[s])
            /\ reqs'[s].tries = reqs[s].tries + 1]_vars

\* C1 witness: a signed request on the external port was forwarded and the
\* upstream socket failed, so the counter moved.
C1_Witness ==
  \E s \in Slots :
    /\ OnPort(reqs[s].req, EXTERNAL_PORT)
    /\ reqs[s].tries = 2
    /\ reqs[s].pc = "done"
    /\ consecutive_socket_failures = 2

\* C2: on the external port the checks are made in the order headers,
\* allowlist, nonce, signature. A missing header is 401; with all headers, a
\* hotkey outside the allowlist is 403; with an allowed hotkey, a nonce that
\* is no integer, is in the future or is 30 or more seconds old is 401; with
\* a fresh nonce, a signature that is not hex or does not verify is 401. The
\* request is authenticated exactly when none of these applies, and each of
\* the listed conditions by itself means rejection with 401 or 403.
C2_ExternalAuthDecision ==
  \A s \in Slots :
    LET slot == reqs[s]
        r == slot.req
        n == ParseInt(r.nonce)
        age == slot.t - n.val
        missing == ~HeadersPresent(r)
        listed == r.validator \in allowed_validator_hotkeys
        badNonce == ~n.ok \/ age < 0 \/ age >= NONCE_MAX_AGE_SECONDS
        badSignature == ~SignatureVerifies(r)
    IN (slot.pc # "idle" /\ OnPort(r, EXTERNAL_PORT)) =>
         /\ missing => (~slot.auth /\ slot.status = 401)
         /\ (~missing /\ ~listed) => (~slot.auth /\ slot.status = 403)
         /\ (~missing /\ listed /\ badNonce) => (~slot.auth /\ slot.status = 401)
         /\ (~missing /\ listed /\ ~badNonce /\ badSignature) =>
              (~slot.auth /\ slot.status = 401)
         /\ (missing \/ ~listed \/ badNonce \/ badSignature) =>
              (~slot.auth /\ slot.status \in {401, 403} /\ slot.tries = 0)
         /\ slot.auth => (age >= 0 /\ age < NONCE_MAX_AGE_SECONDS /\ SignatureVerifies(r))
         /\ slot.auth <=> (~missing /\ listed /\ ~badNonce /\ ~badSignature)

\* C2 witness: an allowed validator's correctly signed request whose nonce is
\* exactly 30 seconds old was rejected with 401.
C2_Witness ==
  \E s \in Slots :
    /\ OnPort(reqs[s].req, EXTERNAL_PORT)
    /\ reqs[s].req.validator \in allowed_validator_hotkeys
    /\ SignatureVerifies(reqs[s].req)
    /\ ParseInt(reqs[s].req.nonce).ok
    /\ reqs[s].t - ParseInt(reqs[s].req.nonce).val = NONCE_MAX_AGE_SECONDS
    /\ reqs[s].pc = "done"
    /\ reqs[s].status = 401

\* C6: every answer of GET /health is 503 "unhealthy: unix socket
\* unavailable" when SOCKET_PATH does not exist or is not a socket, whatever
\* the counter; else 503 when the counter is at least 5; else 200; and
\* answering never changes the counter.
C6_HealthAnswer ==
  [][health'.n # health.n =>
       /\ socket_path \in {"absent", "notsocket"} =>
            /\ health'.status = 503
            /\ health'.content = "unhealthy: unix socket unavailable"
       /\ (socket_path = "socket" /\ consecutive_socket_failures >= 5) =>
            /\ health'.status = 503
            /\ health'.content # "unhealthy: unix socket unavailable"
       /\ (socket_path = "socket" /\ consecutive_socket_failures < 5) =>
            health'.status = 200
       /\ consecutive_socket_failures' = consecutive_socket_failures
       /\ reqs' = reqs]_vars

\* C6 witness: /health answered "unix socket unavailable" although the
\* counter it read had reached the threshold.
C6_Witness ==
  /\ health.status = 503
  /\ health.content = "unhealthy: unix socket unavailable"
  /\ ~health.socket_valid
  /\ health.failures >= MAX_CONSECUTIVE_FAILURES

\* C17: a proxied request whose every attempt ended in a connection error
\* is answered, once the retries are given up, with 502 or 503.
C17_ConnectFailureStatus ==
  \A s \in Slots :
    (reqs[s].pc = "done" /\ reqs[s].tries >= 1 /\ reqs[s].last = "ConnectError") =>
      reqs[s].status \in {502, 503}

\* C23: every attempt on the Unix socket that fails (connection failure,
\* other request error, unexpected error) adds exactly 1 to the
\* consecutive-failure counter, every response from the Unix socket sets it
\* to 0, attempts on /service targets and every other step leave it alone:
\* the counter is the number of failed Unix-socket attempts since the last
\* Unix-socket response.  /health with a valid socket file answers 503
\* exactly when the counter has reached 5.
C23_FailureCounter ==
  [][(\A s \in Slots :
        reqs'[s].tries = reqs[s].tries + 1 =>
          consecutive_socket_failures' =
            IF ~reqs[s].unix THEN consecutive_socket_failures
            ELSE IF reqs'[s].last \in {"response200", "response500"} THEN 0
            ELSE consecutive_socket_failures + 1)
     /\ ((\A s \in Slots : reqs'[s].tries # reqs[s].tries + 1) =>
           consecutive_socket_failures' = consecutive_socket_failures)
     /\ ((health'.n # health.n /\ socket_path = "socket") =>
           (health'.status = 503 <=> consecutive_socket_failures >= 5))]_vars

\* C23 witness: connection failures on the Unix socket brought the counter
\* to 5 and /health, with the socket file valid, answered 503.
C23_Witness ==
  /\ consecutive_socket_failures = 5
  /\ health.status = 503
  /\ health.socket_valid
  /\ health.failures = 5
  /\ \E s \in Slots : reqs[s].unix /\ reqs[s].last = "ConnectError"

\* C24: a proxied request makes at most 2 upstream attempts; the second
\* is made only after a first that ended in a connection error, and an
\* attempt with any other outcome ends the request.
C24_AtMostOneRetry ==
  [][\A s \in Slots :
       reqs'[s].tries = reqs[s].tries + 1 =>
         /\ reqs'[s].tries <= 2
         /\ reqs[s].tries = 1 => reqs[s].last = "ConnectError"
         /\ reqs'[s].last # "ConnectError" => reqs'[s].pc = "done"
         /\ reqs'[s].pc # "done" => reqs'[s].tries = 1]_vars

\* C24 witness: a request whose first attempt could not connect was
\* answered by its second attempt.
C24_Witness ==
  \E s \in Slots :
    reqs[s].tries = 2 /\ reqs[s].pc = "done" /\ reqs[s].last = "response200"

\* C25: after a connection failure on the Unix socket the shared client is
\* recreated before the retry, only by the holder of unix_client_lock, and
\* the retry uses the new client.
C25_RetryUsesNewClient ==
  [][/\ \A s \in Slots :
          (reqs[s].unix /\ reqs[s].tries = 1 /\ reqs'[s].tries = 2) =>
            reqs'[s].clients[2] # reqs'[s].clients[1]
     /\ unix_client' # unix_client => unix_client_lock # "unlocked"]_vars

\* C10: a (validator, nonce) pair that was authenticated once on the
\* external port is never authenticated a second time.
C10_NonceSingleUse == ~reauth

\* ======================================================================
\* Cloud-init validator
\* (ansible/k3s/roles/harden-cloud-init/files/validate-cloud-init.py)
\* ======================================================================
\* A parsed YAML value: a string (s: its characters, or one token where the
\* code only compares it whole), an integer, null, a list (items: the
\* values) or a mapping (items: the key/value entries in file order).
Str(s) == [t |-> "str", s |-> s, items |-> <<>>]
IntValue == [t |-> "int", s |-> <<>>, items |-> <<>>]
NullValue == [t |-> "none", s |-> <<>>, items |-> <<>>]
List(items) == [t |-> "list", s |-> <<>>, items |-> items]
Dict(entries) == [t |-> "dict", s |-> <<>>, items |-> entries]
Entry(k, v) == [k |-> k, v |-> v]
\* What yaml.safe_load leaves when the text is not YAML: it raises YAMLError.
YamlError == [t |-> "yamlerror", s |-> <<>>, items |-> <<>>]

DictKeys(d) == {d.items[i].k : i \in 1..Len(d.items)}
Has(d, k) == k \in DictKeys(d)
\* d[k]: a later duplicate of a key wins in safe_load; the inputs have none.
Get(d, k) == d.items[CHOOSE i \in 1..Len(d.items) : d.items[i].k = k].v

Rep(c, n) == [i \in 1..n |-> c]

StartsWith(s, prefix) ==
  Len(s) >= Len(prefix) /\ SubSeq(s, 1, Len(prefix)) = prefix

EndsWith(s, suffix) ==
  Len(s) >= Len(suffix) /\ SubSeq(s, Len(s) - Len(suffix) + 1, Len(s)) = suffix

Whitespace == {" ", "\n", "\t"}

RECURSIVE LStrip(_)
LStrip(s) == IF s # <<>> /\ s[1] \in Whitespace THEN LStrip(Tail(s)) ELSE s

RECURSIVE RStrip(_)
RStrip(s) ==
  IF s # <<>> /\ s[Len(s)] \in Whitespace THEN RStrip(SubSeq(s, 1, Len(s) - 1)) ELSE s

\* str.strip()
Strip(s) == RStrip(LStrip(s))

\* Where `$` of a Python regular expression can match: at the end of the
\* text, or just before one newline that ends it.
DollarCores(s) ==
  {s} \cup (IF s # <<>> /\ s[Len(s)] = "\n" THEN {SubSeq(s, 1, Len(s) - 1)} ELSE {})

AllIn(s, chars) == \A i \in 1..Len(s) : s[i] \in chars

AlnumChars == {Digits[i] : i \in 1..10} \cup LowerLetters \cup UpperLetters

HexChars == {Digits[i] : i \in 1..10} \cup {"a", "b", "c", "d", "e", "f"}
              \cup {"A", "B", "C", "D", "E", "F"}

\* ss58_chars
Base58Chars == (AlnumChars \ {"0", "O", "I", "l"})

CLOUD_CONFIG_HEADER == <<"#cloud-config">>
MINER_SS58_PATH == <<"/var/lib/rancher/k3s/credentials/miner-ss58">>
MINER_SEED_PATH == <<"/var/lib/rancher/k3s/credentials/miner-seed">>
ALLOWED_KEYS == {"hostname", "write_files"}
REQUIRED_FILE_PATHS == {Str(MINER_SS58_PATH), Str(MINER_SEED_PATH)}
required_fields == {"path", "content", "permissions", "owner"}

\* Faulty variant: the leading '5' is not required.
validate_ss58_address_any_prefix(address) ==
  /\ address.t = "str"
  /\ LET a == Strip(address.s)
     IN /\ Len(a) >= 40 /\ Len(a) <= 50
        /\ AllIn(a, Base58Chars)

validate_ss58_address(address) ==
  /\ address.t = "str"
  /\ LET a == Strip(address.s)
     IN /\ Len(a) >= 40 /\ Len(a) <= 50
        /\ AllIn(a, Base58Chars)
        /\ StartsWith(a, <<"5">>)

validate_seed_content(seed) ==
  /\ seed.t = "str"
  /\ LET x == Strip(seed.s)
     IN /\ ~StartsWith(x, <<"0", "x">>) /\ ~StartsWith(x, <<"0", "X">>)
        /\ Len(x) = 64
        \* re.match(r'^[a-fA-F0-9]+$', seed)
        /\ \E core \in DollarCores(x) : core # <<>> /\ AllIn(core, HexChars)

validate_hostname(hostname) ==
  /\ hostname.t = "str"
  /\ Len(hostname.s) <= 63
  \* re.match(r'^[a-zA-Z0-9-]+$', hostname)
  /\ \E core \in DollarCores(hostname.s) :
       core # <<>> /\ AllIn(core, AlnumChars \cup {"-"})
  /\ ~StartsWith(hostname.s, <<"-">>) /\ ~EndsWith(hostname.s, <<"-">>)
  \* re.match(r'^[a-zA-Z0-9]+-miner$', hostname)
  /\ \E core \in DollarCores(hostname.s) :
       /\ EndsWith(core, <<"-", "m", "i", "n", "e", "r">>)
       /\ Len(core) > 6
       /\ AllIn(SubSeq(core, 1, Len(core) - 6), AlnumChars)

validate_file_path(path) == path \in {Str(MINER_SS58_PATH), Str(MINER_SEED_PATH)}

\* Faulty variant: any string is taken as permissions.
validate_permissions_any(perms) == perms.t = "str"

validate_permissions(perms) == perms = Str(<<"0600">>)

validate_owner(owner) == owner = Str(<<"root:root">>)

validate_file_content(path, content) ==
  IF path = Str(MINER_SS58_PATH) THEN validate_ss58_address(content)
  ELSE IF path = Str(MINER_SEED_PATH) THEN validate_seed_content(content)
  ELSE FALSE

\* The loop over write_files: TRUE when every entry passes; found_paths are
\* the paths of the entries already passed.
RECURSIVE check_entries(_, _)
check_entries(entries, found_paths) ==
  IF entries = <<>> THEN [ok |-> TRUE, found_paths |-> found_paths]
  ELSE LET file_entry == Head(entries)
           failed == [ok |-> FALSE, found_paths |-> found_paths]
       IN IF file_entry.t # "dict" THEN failed
          ELSE IF \E field \in required_fields : ~Has(file_entry, field) THEN failed
          ELSE IF \E field \in DictKeys(file_entry) : field \notin required_fields THEN failed
          ELSE IF ~validate_file_path(Get(file_entry, "path")) THEN failed
          ELSE IF Get(file_entry, "path") \in found_paths THEN failed
          ELSE IF ~validate_file_content(Get(file_entry, "path"), Get(file_entry, "content"))
            THEN failed
          ELSE IF ~validate_permissions(Get(file_entry, "permissions")) THEN failed
          ELSE IF ~validate_owner(Get(file_entry, "owner")) THEN failed
          ELSE check_entries(Tail(entries), found_paths \cup {Get(file_entry, "path")})

\* The write_files block of validate_cloud_init_data.
check_write_files(write_files) ==
  /\ write_files.t = "list"
  /\ Len(write_files.items) <= 2
  /\ LET r == check_entries(write_files.items, {})
     IN /\ r.ok
        /\ ~(Len(write_files.items) = 2 /\ r.found_paths # REQUIRED_FILE_PATHS)

\* Faulty variant: the whitelist of top-level keys is not enforced.
check_content_no_whitelist(content) ==
  /\ StartsWith(content.line1, CLOUD_CONFIG_HEADER)
  /\ content.yaml.t = "dict"
  /\ Has(content.yaml, "hostname") => validate_hostname(Get(content.yaml, "hostname"))
  /\ Has(content.yaml, "write_files") => check_write_files(Get(content.yaml, "write_files"))

\* The try block of validate_cloud_init_data once the file is read: content
\* is the file's first line and what yaml.safe_load makes of the rest.
check_content(content) ==
  /\ StartsWith(content.line1, CLOUD_CONFIG_HEADER)
  /\ content.yaml.t # "yamlerror"
  /\ content.yaml.t = "dict"
  /\ \A key \in DictKeys(content.yaml) : key \in ALLOWED_KEYS
  /\ Has(content.yaml, "hostname") => validate_hostname(Get(content.yaml, "hostname"))
  /\ Has(content.yaml, "write_files") => check_write_files(Get(content.yaml, "write_files"))

\* ------------------------------------------------------- user-data inputs
GoodHostname == Str(<<"n", "o", "d", "e", "1", "-", "m", "i", "n", "e", "r">>)
GoodSS58 == Str(Rep("5", 48))
GoodSeed == Str(Rep("a", 64))

Hostnames ==
  {GoodHostname,
   Str(<<"n", "o", "d", "e", "1">>),
   Str(<<"-", "n", "o", "d", "e", "1", "-", "m", "i", "n", "e", "r">>),
   Str(<<"n", "o", "d", "e", "1", "-", "m", "i", "n", "e", "r", "\n">>),
   Str(<<"a", "-", "b", "-", "m", "i", "n", "e", "r">>),
   Str(<<"n", "_", "1", "-", "m", "i", "n", "e", "r">>),
   Str(<<"n", "o", "d", "e", "1", "-", "m", "i", "n", "e", "r", "-">>),
   Str(Rep("a", 57) \o <<"-", "m", "i", "n", "e", "r">>),
   Str(Rep("a", 58) \o <<"-", "m", "i", "n", "e", "r">>),
   Str(<<>>), IntValue, NullValue}

FileEntry(path, content, permissions, owner) ==
  Dict(<<Entry("path", path), Entry("content", content),
         Entry("permissions", permissions), Entry("owner", owner)>>)

GoodSS58Entry == FileEntry(Str(MINER_SS58_PATH), GoodSS58, Str(<<"0600">>), Str(<<"root:root">>))
GoodSeedEntry == FileEntry(Str(MINER_SEED_PATH), GoodSeed, Str(<<"0600">>), Str(<<"root:root">>))

SS58Contents ==
  {GoodSS58, Str(Rep("5", 40)), Str(Rep("5", 50)), Str(Rep("5", 39)), Str(Rep("5", 51)),
   Str(<<" ">> \o Rep("5", 48) \o <<"\n">>), Str(<<"5">> \o Rep("0", 47)),
   Str(<<"5">> \o Rep("l", 47)), Str(Rep("4", 48)), GoodSeed, IntValue}

SeedContents ==
  {GoodSeed, Str(Rep("A", 64)), Str(Rep("a", 64) \o <<"\n">>), Str(Rep("a", 63)),
   Str(Rep("a", 65)), Str(<<"0", "x">> \o Rep("a", 62)), Str(<<"0", "X">> \o Rep("a", 64)),
   Str(Rep("g", 64)), GoodSS58, IntValue}

FileEntries ==
  {FileEntry(Str(MINER_SS58_PATH), c, Str(<<"0600">>), Str(<<"root:root">>)) : c \in SS58Contents}
  \cup {FileEntry(Str(MINER_SEED_PATH), c, Str(<<"0600">>), Str(<<"root:root">>)) : c \in SeedContents}
  \cup {FileEntry(Str(<<"/etc/passwd">>), GoodSS58, Str(<<"0600">>), Str(<<"root:root">>)),
        FileEntry(List(<<Str(MINER_SS58_PATH)>>), GoodSS58, Str(<<"0600">>), Str(<<"root:root">>)),
        FileEntry(Str(MINER_SS58_PATH), GoodSS58, Str(<<"0644">>), Str(<<"root:root">>)),
        FileEntry(Str(MINER_SS58_PATH), GoodSS58, IntValue, Str(<<"root:root">>)),
        FileEntry(Str(MINER_SEED_PATH), GoodSeed, Str(<<"0600">>), Str(<<"root:wheel">>)),
        Dict(<<Entry("path", Str(MINER_SS58_PATH)), Entry("content", GoodSS58),
               Entry("permissions", Str(<<"0600">>))>>),
        Dict(GoodSS58Entry.items \o <<Entry("encoding", Str(<<"b64">>))>>),
        Str(MINER_SS58_PATH)}

PairEntries ==
  {GoodSS58Entry, GoodSeedEntry,
   FileEntry(Str(MINER_SEED_PATH), Str(Rep("a", 63)), Str(<<"0600">>), Str(<<"root:root">>)),
   FileEntry(Str(<<"/etc/passwd">>), GoodSS58, Str(<<"0600">>), Str(<<"root:root">>))}

WriteFiles ==
  {List(<<>>), Str(<<"x">>), NullValue,
   List(<<GoodSS58Entry, GoodSeedEntry, GoodSeedEntry>>)}
  \cup {List(<<e>>) : e \in FileEntries}
  \cup {List(<<e1, e2>>) : e1 \in PairEntries, e2 \in PairEntries}

\* Top-level mappings: the keys the validator knows, with and without one it
\* does not.
Roots ==
  LET known ==
        {<<>>}
        \cup {<<Entry("hostname", h)>> : h \in Hostnames}
        \cup {<<Entry("write_files", w)>> : w \in WriteFiles}
        \cup {<<Entry("hostname", h), Entry("write_files", w)>> :
                h \in {GoodHostname, Str(<<"n", "o", "d", "e", "1">>)},
                w \in {List(<<GoodSS58Entry, GoodSeedEntry>>), List(<<GoodSeedEntry, GoodSeedEntry>>)}}
      extra == {<<>>, <<Entry("runcmd", List(<<Str(<<"x">>)>>))>>}
  IN {Dict(k \o x) : k \in known, x \in extra}
     \cup {NullValue, YamlError, Str(<<"x">>), List(<<Str(<<"x">>)>>)}

GoodRoot ==
  Dict(<<Entry("hostname", GoodHostname),
         Entry("write_files", List(<<GoodSS58Entry, GoodSeedEntry>>))>>)

\* What can be in the user-data file.
Contents ==
  {[line1 |-> CLOUD_CONFIG_HEADER, yaml |-> root] : root \in Roots}
  \cup {[line1 |-> l, yaml |-> GoodRoot] :
          l \in {<<>>, <<"#cloud-config", "x">>, <<"#cloud-config", " ">>,
                 <<"#cloud-confi">>, <<"#!/bin/sh">>}}

NoContent == [line1 |-> <<>>, yaml |-> NullValue]

\* ------------------------------------------------- the validator process
CiIdle ==
  /\ ci_pc = "boot"
  /\ ci_euid = 0
  /\ ci_file = [present |-> FALSE, content |-> NoContent]
  /\ ci_boot_file = [present |-> FALSE, content |-> NoContent]
  /\ ci_backup_dir = {}
  /\ ci_result = "none"
  /\ ci_exit = [code |-> 0, at |-> "running"]
  /\ ci_trace = <<>>

\* The state of the host when systemd starts the validator: who runs it and
\* what, if anything, is at USER_DATA_FILE.
CiBoot(euid, file) ==
  /\ ci_pc = "boot"
  /\ ci_pc' = "main"
  /\ ci_euid' = euid
  /\ ci_file' = file
  /\ ci_boot_file' = file
  /\ UNCHANGED <<ci_backup_dir, ci_result, ci_exit, ci_trace, proxyVars, admVars, cosVars, nvVars, atsVars, stVars, wsVars, cmdVars, clientVars, ovVars, gpVars>>

\* sys.exit(code) reached at `at`.
Exit(code, at) == [code |-> code, at |-> at]

\* main: os.geteuid() != 0
CiCheckRoot ==
  /\ ci_pc = "main"
  /\ ci_trace' = Append(ci_trace, "geteuid")
  /\ IF ci_euid # 0
     THEN ci_pc' = "exit" /\ ci_exit' = Exit(1, "not root")
     ELSE ci_pc' = "isfile" /\ UNCHANGED ci_exit
  /\ UNCHANGED <<ci_euid, ci_boot_file, ci_file, ci_backup_dir, ci_result, proxyVars, admVars, cosVars, nvVars, atsVars, stVars, wsVars, cmdVars, clientVars, ovVars, gpVars>>

\* validate_cloud_init_data: os.path.isfile(USER_DATA_FILE); an absent file
\* returns True, and main exits 0.
CiIsFile ==
  /\ ci_pc = "isfile"
  /\ ci_trace' = Append(ci_trace, "isfile")
  /\ IF ~ci_file.present
     THEN ci_result' = "pass" /\ ci_pc' = "passed"
     ELSE ci_pc' = "backup" /\ UNCHANGED ci_result
  /\ UNCHANGED <<ci_euid, ci_boot_file, ci_file, ci_backup_dir, ci_exit, proxyVars, admVars, cosVars, nvVars, atsVars, stVars, wsVars, cmdVars, clientVars, ovVars, gpVars>>

\* Faulty variant: a failed backup is only logged and validation goes on.
CiBackup_unchecked(ok) ==
  /\ ci_pc = "backup"
  /\ ci_pc' = "read"
  /\ IF ok
     THEN /\ ci_backup_dir' = ci_backup_dir \cup {[name |-> "user-data.backup", content |-> ci_file.content]}
          /\ ci_trace' = Append(ci_trace, "backup")
     ELSE /\ ci_trace' = Append(ci_trace, "backup failed")
          /\ UNCHANGED ci_backup_dir
  /\ UNCHANGED <<ci_euid, ci_boot_file, ci_file, ci_result, ci_exit, proxyVars, admVars, cosVars, nvVars, atsVars, stVars, wsVars, cmdVars, clientVars, ovVars, gpVars>>

\* create_backup: copies the file to user-data.backup.<ts>, or fails.
CiBackup(ok) ==
  /\ ci_pc = "backup"
  /\ IF ok
     THEN /\ ci_backup_dir' = ci_backup_dir \cup {[name |-> "user-data.backup", content |-> ci_file.content]}
          /\ ci_pc' = "read"
          /\ ci_trace' = Append(ci_trace, "backup")
          /\ UNCHANGED ci_result
     ELSE /\ ci_pc' = "failed"
          /\ ci_result' = "fail"
          /\ ci_trace' = Append(ci_trace, "backup failed")
          /\ UNCHANGED ci_backup_dir
  /\ UNCHANGED <<ci_euid, ci_boot_file, ci_file, ci_exit, proxyVars, admVars, cosVars, nvVars, atsVars, stVars, wsVars, cmdVars, clientVars, ovVars, gpVars>>

\* open(USER_DATA_FILE).read(): an error here is caught by the function's
\* `except Exception` and returns False.
CiRead(ok) ==
  /\ ci_pc = "read"
  /\ IF ok
     THEN ci_pc' = "check" /\ ci_trace' = Append(ci_trace, "read") /\ UNCHANGED ci_result
     ELSE /\ ci_pc' = "failed"
          /\ ci_result' = "fail"
          /\ ci_trace' = Append(ci_trace, "read failed")
  /\ UNCHANGED <<ci_euid, ci_boot_file, ci_file, ci_backup_dir, ci_exit, proxyVars, admVars, cosVars, nvVars, atsVars, stVars, wsVars, cmdVars, clientVars, ovVars, gpVars>>

\* The checks of validate_cloud_init_data on the content read.
CiCheck ==
  /\ ci_pc = "check"
  /\ ci_trace' = Append(ci_trace, "check")
  /\ IF check_content(ci_file.content)
     THEN ci_result' = "pass" /\ ci_pc' = "passed"
     ELSE ci_result' = "fail" /\ ci_pc' = "failed"
  /\ UNCHANGED <<ci_euid, ci_boot_file, ci_file, ci_backup_dir, ci_exit, proxyVars, admVars, cosVars, nvVars, atsVars, stVars, wsVars, cmdVars, clientVars, ovVars, gpVars>>

\* main after validate_cloud_init_data returned True: sys.exit(0).
CiExitPassed ==
  /\ ci_pc = "passed"
  /\ ci_pc' = "exit"
  /\ ci_exit' = Exit(0, "passed")
  /\ UNCHANGED <<ci_euid, ci_boot_file, ci_file, ci_backup_dir, ci_result, ci_trace, proxyVars, admVars, cosVars, nvVars, atsVars, stVars, wsVars, cmdVars, clientVars, ovVars, gpVars>>

\* Faulty variant: main does not exit non-zero after a failed validation.
CiExitFailed_status0(moved) ==
  /\ ci_pc = "failed"
  /\ ci_pc' = "exit"
  /\ ci_exit' = Exit(0, "failed")
  /\ IF ci_file.present /\ moved
     THEN /\ ci_file' = [present |-> FALSE, content |-> NoContent]
          /\ ci_backup_dir' = ci_backup_dir \cup {[name |-> "user-data.invalid", content |-> ci_file.content]}
          /\ ci_trace' = Append(ci_trace, "move")
     ELSE /\ UNCHANGED <<ci_file, ci_backup_dir>>
          /\ ci_trace' = Append(ci_trace, "move failed")
  /\ UNCHANGED <<ci_euid, ci_boot_file, ci_result, proxyVars, admVars, cosVars, nvVars, atsVars, stVars, wsVars, cmdVars, clientVars, ovVars, gpVars>>

\* main after validate_cloud_init_data returned False: the file, if it is
\* there, is moved to user-data.invalid.<ts> (shutil.move may fail, which is
\* only logged), then sys.exit(1).
CiExitFailed(moved) ==
  /\ ci_pc = "failed"
  /\ ci_pc' = "exit"
  /\ ci_exit' = Exit(1, "failed")
  /\ IF ci_file.present /\ moved
     THEN /\ ci_file' = [present |-> FALSE, content |-> NoContent]
          /\ ci_backup_dir' = ci_backup_dir \cup {[name |-> "user-data.invalid", content |-> ci_file.content]}
          /\ ci_trace' = Append(ci_trace, "move")
     ELSE /\ UNCHANGED <<ci_file, ci_backup_dir>>
          /\ ci_trace' = Append(ci_trace, "move failed")
  /\ UNCHANGED <<ci_euid, ci_boot_file, ci_result, proxyVars, admVars, cosVars, nvVars, atsVars, stVars, wsVars, cmdVars, clientVars, ovVars, gpVars>>

\* KeyboardInterrupt, or an exception that reaches main (log() failing to
\* write LOG_FILE raises outside every try of validate_cloud_init_data):
\* both handlers of main log and sys.exit(1); if the handler itself raises,
\* the interpreter ends with status 1.
CiAbort(kind) ==
  /\ ci_pc \in {"main", "isfile", "backup", "read", "check", "passed", "failed"}
  /\ kind \in {"KeyboardInterrupt", "Exception"}
  /\ ci_pc' = "exit"
  /\ ci_exit' = Exit(1, kind)
  /\ UNCHANGED <<ci_euid, ci_boot_file, ci_file, ci_backup_dir, ci_result, ci_trace, proxyVars, admVars, cosVars, nvVars, atsVars, stVars, wsVars, cmdVars, clientVars, ovVars, gpVars>>

\* ------------------------------------- claims on the cloud-init validator
InTrace(step) == \E i \in 1..Len(ci_trace) : ci_trace[i] = step

\* What the claims call a document that passes: the root is a mapping, its
\* keys are among hostname and write_files, and each key present passes.
RootAccepted(root) ==
  /\ root.t = "dict"
  /\ DictKeys(root) \subseteq {"hostname", "write_files"}
  /\ Has(root, "hostname") => validate_hostname(Get(root, "hostname"))
  /\ Has(root, "write_files") => check_write_files(Get(root, "write_files"))

\* C3: when validate_cloud_init_data returns for an existing file, it
\* returns True exactly when the backup was made, the file was read, the
\* first line is the header and the parsed root is a mapping with only the
\* keys hostname and write_files whose values pass their checks; a root of
\* another type, another key, a failed check, a YAML error or a failed read
\* returns False.
C3_FailClosed ==
  (ci_pc \in {"passed", "failed"} /\ ci_boot_file.present) =>
    /\ ci_result \in {"pass", "fail"}
    /\ ci_result = "pass" <=>
         /\ InTrace("backup")
         /\ InTrace("read")
         /\ StartsWith(ci_boot_file.content.line1, CLOUD_CONFIG_HEADER)
         /\ RootAccepted(ci_boot_file.content.yaml)
    /\ ci_pc = "passed" <=> ci_result = "pass"

\* C3 witness: a document whose hostname and write_files are both valid but
\* which also has the key runcmd was rejected.
C3_Witness ==
  /\ ci_pc = "failed"
  /\ InTrace("check")
  /\ ci_boot_file.present
  /\ ci_boot_file.content.yaml.t = "dict"
  /\ DictKeys(ci_boot_file.content.yaml) = {"hostname", "write_files", "runcmd"}
  /\ validate_hostname(Get(ci_boot_file.content.yaml, "hostname"))
  /\ check_write_files(Get(ci_boot_file.content.yaml, "write_files"))
  /\ ci_result = "fail"

C5_ExitCode ==
  ci_pc = "exit" =>
    /\ ci_exit.code \in {0, 1}
    /\ ci_exit.code = 0 <=>
         /\ ci_euid = 0
         /\ ci_exit.at \notin {"KeyboardInterrupt", "Exception"}
         /\ \/ ~ci_boot_file.present
            \/ /\ InTrace("backup")
               /\ InTrace("read")
               /\ StartsWith(ci_boot_file.content.line1, CLOUD_CONFIG_HEADER)
               /\ RootAccepted(ci_boot_file.content.yaml)
    /\ (ci_exit.code = 0 /\ ~InTrace("read")) => ~ci_boot_file.present

\* C5 witness: run as root, an existing valid file whose backup failed: the
\* process ended with status 1.
C5_Witness ==
  /\ ci_pc = "exit"
  /\ ci_euid = 0
  /\ ci_boot_file.present
  /\ check_content(ci_boot_file.content)
  /\ InTrace("backup failed")
  /\ ci_exit.code = 1

\* The validator has returned for a file that was backed up and read, whose
\* first line is the header and whose root is a mapping with exactly the
\* given keys.
Checked(keys) ==
  /\ ci_pc \in {"passed", "failed"}
  /\ ci_boot_file.present
  /\ InTrace("backup")
  /\ InTrace("read")
  /\ ci_boot_file.content.line1 = CLOUD_CONFIG_HEADER
  /\ ci_boot_file.content.yaml.t = "dict"
  /\ DictKeys(ci_boot_file.content.yaml) = keys

\* A string of at most 63 characters, all in [a-zA-Z0-9-], not starting or
\* ending with '-', of the shape <alphanumerics>-miner.
HostnameShape(h) ==
  /\ h.t = "str"
  /\ Len(h.s) <= 63
  /\ h.s # <<>>
  /\ AllIn(h.s, AlnumChars \cup {"-"})
  /\ h.s[1] # "-" /\ h.s[Len(h.s)] # "-"
  /\ Len(h.s) > 6
  /\ SubSeq(h.s, Len(h.s) - 5, Len(h.s)) = <<"-", "m", "i", "n", "e", "r">>
  /\ AllIn(SubSeq(h.s, 1, Len(h.s) - 6), AlnumChars)

\* C11: a document whose only key is hostname passes exactly when the
\* hostname is a string of at most 63 characters of [a-zA-Z0-9-] only, not
\* starting or ending with '-', of the shape <alphanumerics>-miner.
C11_HostnameRule ==
  Checked({"hostname"}) =>
    (ci_result = "pass" <=> HostnameShape(Get(ci_boot_file.content.yaml, "hostname")))

\* C12, the shape of an accepted write_files value.
WriteFilesShape(w) ==
  /\ w.t = "list"
  /\ Len(w.items) <= 2
  /\ \A i \in 1..Len(w.items) :
       /\ w.items[i].t = "dict"
       /\ DictKeys(w.items[i]) = {"path", "content", "permissions", "owner"}
       /\ Get(w.items[i], "path") \in {Str(MINER_SS58_PATH), Str(MINER_SEED_PATH)}
       /\ Get(w.items[i], "permissions") = Str(<<"0600">>)
       /\ Get(w.items[i], "owner") = Str(<<"root:root">>)
  /\ \A i, j \in 1..Len(w.items) :
       i # j => Get(w.items[i], "path") # Get(w.items[j], "path")
  /\ Len(w.items) = 2 =>
       {Get(w.items[i], "path") : i \in 1..2} = {Str(MINER_SS58_PATH), Str(MINER_SEED_PATH)}

\* C12: a document that passes and has write_files has a list of at most 2
\* entries, each a mapping with exactly the keys path, content, permissions
\* and owner, each path one of the two credential paths and none twice,
\* permissions "0600" and owner "root:root"; two entries name both paths.
C12_WriteFilesRule ==
  (ci_pc = "passed" /\ ci_boot_file.present /\ ci_boot_file.content.yaml.t = "dict"
     /\ Has(ci_boot_file.content.yaml, "write_files")) =>
    WriteFilesShape(Get(ci_boot_file.content.yaml, "write_files"))

\* C12 witness: a document with both credential files passed.
C12_Witness ==
  /\ ci_pc = "passed"
  /\ ci_boot_file.present
  /\ ci_boot_file.content.yaml.t = "dict"
  /\ Has(ci_boot_file.content.yaml, "write_files")
  /\ Len(Get(ci_boot_file.content.yaml, "write_files").items) = 2
  /\ ci_result = "pass"

\* C13, the rule of each path.
SS58Shape(c) ==
  /\ c.t = "str"
  /\ Len(Strip(c.s)) >= 40 /\ Len(Strip(c.s)) <= 50
  /\ AllIn(Strip(c.s), Base58Chars)
  /\ Strip(c.s) # <<>> /\ Strip(c.s)[1] = "5"

SeedShape(c) ==
  /\ c.t = "str"
  /\ ~(Len(c.s) >= 2 /\ c.s[1] = "0" /\ c.s[2] \in {"x", "X"})
  /\ Len(Strip(c.s)) = 64
  /\ AllIn(Strip(c.s), HexChars)

\* The only entry of the write_files list of a document with that key alone.
OnlyEntry == Get(ci_boot_file.content.yaml, "write_files").items[1]

OneGoodEntry ==
  /\ Checked({"write_files"})
  /\ Get(ci_boot_file.content.yaml, "write_files").t = "list"
  /\ Len(Get(ci_boot_file.content.yaml, "write_files").items) = 1
  /\ OnlyEntry.t = "dict"
  /\ DictKeys(OnlyEntry) = {"path", "content", "permissions", "owner"}
  /\ Get(OnlyEntry, "permissions") = Str(<<"0600">>)
  /\ Get(OnlyEntry, "owner") = Str(<<"root:root">>)

\* C13: a document with one otherwise valid write_files entry passes
\* exactly when the content obeys the rule of the entry's path: the SS58
\* rule for the miner-ss58 path, the seed rule for the miner-seed path, and
\* nothing for any other path.
C13_ContentRule ==
  OneGoodEntry =>
    (ci_result = "pass" <=>
       \/ /\ Get(OnlyEntry, "path") = Str(MINER_SS58_PATH)
          /\ SS58Shape(Get(OnlyEntry, "content"))
       \/ /\ Get(OnlyEntry, "path") = Str(MINER_SEED_PATH)
          /\ SeedShape(Get(OnlyEntry, "content")))

\* C13 witness: a seed of 63 hexadecimal characters was rejected.
C13_Witness ==
  /\ OneGoodEntry
  /\ Get(OnlyEntry, "path") = Str(MINER_SEED_PATH)
  /\ Get(OnlyEntry, "content") = Str(Rep("a", 63))
  /\ ci_result = "fail"

\* C14: a file passes only when its first line is exactly #cloud-config.
C14_FirstLineExact ==
  (ci_pc = "passed" /\ ci_boot_file.present) =>
    ci_boot_file.content.line1 = CLOUD_CONFIG_HEADER

\* The steps of the trace that read the file or check what was read.
ContentSteps == {"read", "read failed", "check"}

\* C26: for an existing file the backup is attempted before the content is
\* read or checked; after a failed backup the run is a failure and nothing
\* was read or checked; a run reports success for an existing file only
\* with a backup copy of that file in the backup directory.
C26_BackupFirst ==
  /\ \A i \in 1..Len(ci_trace) :
       ci_trace[i] \in ContentSteps =>
         \E j \in 1..(i - 1) : ci_trace[j] = "backup"
  /\ InTrace("backup failed") =>
       /\ ci_result = "fail"
       /\ \A i \in 1..Len(ci_trace) : ci_trace[i] \notin ContentSteps
       /\ ~(ci_pc = "exit" /\ ci_exit.code = 0)
  /\ (ci_boot_file.present /\ (ci_result = "pass" \/ (ci_pc = "exit" /\ ci_exit.code = 0))) =>
       [name |-> "user-data.backup", content |-> ci_boot_file.content] \in ci_backup_dir

\* C26 witness: a run over an existing file has exited 0 with the backup
\* copy in place, the backup being the step before the read.
C26_Witness ==
  /\ ci_pc = "exit"
  /\ ci_exit = Exit(0, "passed")
  /\ ci_boot_file.present
  /\ ci_trace = <<"geteuid", "isfile", "backup", "read", "check">>
  /\ ci_backup_dir = {[name |-> "user-data.backup", content |-> ci_boot_file.content]}

NextCloudInit ==
  \/ \E euid \in {0, 1000}, c \in Contents : CiBoot(euid, [present |-> TRUE, content |-> c])
  \/ \E euid \in {0, 1000} : CiBoot(euid, [present |-> FALSE, content |-> NoContent])
  \/ CiCheckRoot
  \/ CiIsFile
  \/ \E ok \in BOOLEAN : CiBackup(ok)
  \/ \E ok \in BOOLEAN : CiRead(ok)
  \/ CiCheck
  \/ CiExitPassed
  \/ \E moved \in BOOLEAN : CiExitFailed(moved)
  \/ \E kind \in {"KeyboardInterrupt", "Exception"} : CiAbort(kind)

\* ======================================================================
\* Admission controller and OPA policy client
\* (sek8s/admission/admission_controller.py, sek8s/opa.py)
\* ======================================================================
\* Values of parsed JSON use the constructors Str, IntValue, NullValue, List
\* and Dict above; a text is a sequence of tokens.

\* bool(v) of a parsed value.
Truthy(v) ==
  CASE v.t = "none" -> FALSE
    [] v.t = "str" -> v.s # <<>>
    [] v.t \in {"list", "dict"} -> v.items # <<>>
    [] OTHER -> TRUE

\* for x in v: the items of a list, the keys of a mapping, the pieces of a
\* string; anything else is not iterable (TypeError).
Iter(v) ==
  CASE v.t = "list" -> [ok |-> TRUE, items |-> v.items]
    [] v.t = "dict" -> [ok |-> TRUE, items |-> [i \in 1..Len(v.items) |-> Str(<<v.items[i].k>>)]]
    [] v.t = "str" -> [ok |-> TRUE, items |-> [i \in 1..Len(v.s) |-> Str(<<v.s[i]>>)]]
    [] OTHER -> [ok |-> FALSE, items |-> <<>>]

\* v[key] for a string key: KeyError on a mapping without it, TypeError on
\* anything that is not a mapping.
Subscript(v, key) ==
  IF v.t = "dict" /\ Has(v, key)
  THEN [ok |-> TRUE, v |-> Get(v, key)]
  ELSE [ok |-> FALSE, v |-> NullValue]

PolicyFiles == {"a.rego", "b.rego"}

\* The order in which glob yields the *.rego files of the policy directory.
PolicyDirs ==
  {<<>>, <<"a.rego">>, <<"b.rego">>, <<"a.rego", "b.rego">>, <<"b.rego", "a.rego">>}

ErrorViolation(file) == Str(<<"Policy evaluation error in ", file>>)

Unparsable == [t |-> "unparsable", s |-> <<>>, items |-> <<>>]

\* The document opa prints for a query whose single expression has the
\* given value.
OpaExpressions(value) ==
  Dict(<<Entry("expressions", List(<<Dict(<<Entry("value", value)>>)>>))>>)

OpaResult(value) == Dict(<<Entry("result", List(<<OpaExpressions(value)>>))>>)

MsgViolation(text) == Dict(<<Entry("msg", Str(<<text>>))>>)

OpaDocs ==
  { Unparsable,
    Dict(<<>>),
    Dict(<<Entry("result", List(<<>>))>>),
    OpaResult(List(<<>>)),
    OpaResult(List(<<MsgViolation("privileged")>>)),
    OpaResult(List(<<Str(<<"host network">>), MsgViolation("tee.verified")>>)),
    OpaResult(List(<<Dict(<<Entry("other", Str(<<"x">>))>>), IntValue>>)),
    Dict(<<Entry("result",
           List(<<OpaExpressions(List(<<MsgViolation("privileged")>>)), Str(<<"junk">>)>>))>>),
    OpaResult(IntValue),
    List(<<IntValue>>),
    OpaResult(List(<<Dict(<<Entry("msg", IntValue)>>)>>)) }

\* What subprocess.run of the opa binary can do.
OpaRun(kind, stdout, stderr) == [kind |-> kind, stdout |-> stdout, stderr |-> stderr]

OpaOutcomes ==
  {OpaRun("timeout", Unparsable, <<>>), OpaRun("missing binary", Unparsable, <<>>),
   OpaRun("nonzero", Unparsable, <<"rego_parse_error">>)}
    \cup {OpaRun("exit0", d, <<>>) : d \in OpaDocs}

\* _evaluate_single_policy from subprocess.run on: the parsed stdout, the
\* substitute document of a non-zero exit, or an exception.
evaluate_single_policy(outcome) ==
  CASE outcome.kind \in {"timeout", "missing binary"} -> [raised |-> TRUE, result |-> NullValue]
    [] outcome.kind = "nonzero" ->
         [raised |-> FALSE,
          result |-> Dict(<<Entry("result",
                      List(<<Str(<<"Policy evaluation failed: ">> \o outcome.stderr)>>))>>)]
    [] OTHER ->
         IF outcome.stdout = Unparsable
         THEN [raised |-> TRUE, result |-> NullValue]
         ELSE [raised |-> FALSE, result |-> outcome.stdout]

\* for violation in expression['value']
RECURSIVE walk_violations(_, _)
walk_violations(items, acc) ==
  IF items = <<>> THEN acc
  ELSE LET v == Head(items)
           next == IF v.t = "dict" /\ Has(v, "msg") THEN Append(acc, Get(v, "msg"))
                   ELSE IF v.t = "str" THEN Append(acc, v)
                   ELSE acc
       IN walk_violations(Tail(items), next)

\* for expression in _result['expressions']
RECURSIVE walk_expressions(_, _)
walk_expressions(items, acc) ==
  IF items = <<>> THEN [raised |-> FALSE, added |-> acc]
  ELSE LET value == Subscript(Head(items), "value")
       IN IF ~value.ok \/ ~Iter(value.v).ok
          THEN [raised |-> TRUE, added |-> acc]
          ELSE walk_expressions(Tail(items), walk_violations(Iter(value.v).items, acc))

\* for _result in result["result"]
RECURSIVE walk_results(_, _)
walk_results(items, acc) ==
  IF items = <<>> THEN [raised |-> FALSE, added |-> acc]
  ELSE LET expressions == Subscript(Head(items), "expressions")
       IN IF ~expressions.ok \/ ~Iter(expressions.v).ok
          THEN [raised |-> TRUE, added |-> acc]
          ELSE LET inner == walk_expressions(Iter(expressions.v).items, acc)
               IN IF inner.raised THEN inner
                  ELSE walk_results(Tail(items), inner.added)

\* The extraction of violations from one file's result: the violations
\* appended so far stay when a later entry raises.
extract_violations(result) ==
  IF ~Truthy(result) THEN [raised |-> FALSE, added |-> <<>>]
  ELSE IF result.t # "dict" THEN [raised |-> TRUE, added |-> <<>>]
  ELSE IF ~Has(result, "result") \/ ~Truthy(Get(result, "result"))
       THEN [raised |-> FALSE, added |-> <<>>]
  ELSE IF ~Iter(Get(result, "result")).ok THEN [raised |-> TRUE, added |-> <<>>]
  ELSE walk_results(Iter(Get(result, "result")).items, <<>>)

\* Faulty variant: an exception in the evaluation of a file is only logged.
evaluate_policy_file_skip(file, res) == res.added

\* The body of evaluate_policies' loop for one file, given what the try
\* block did: an exception adds the fail-secure violation.
evaluate_policy_file(file, res) ==
  IF res.raised THEN Append(res.added, ErrorViolation(file)) ELSE res.added

\* Faulty variant: the message is the first violation only.
validate_request_first_only(review, violations) ==
  IF \E i \in 1..Len(violations) : violations[i].t # "str"
  THEN [raised |-> TRUE, allowed |-> FALSE, response |-> NullValue]
  ELSE LET allowed == Len(violations) = 0
       IN [raised |-> FALSE,
           allowed |-> allowed,
           response |->
             [apiVersion |-> "admission.k8s.io/v1",
              kind |-> "AdmissionReview",
              response |->
                [uid |-> IF review.has_request THEN review.uid ELSE NullValue,
                 allowed |-> allowed,
                 status |-> [message |-> IF violations # <<>> THEN violations[1].s
                                         ELSE <<"Allowed">>]]]]

\* AdmissionController.validate_request after the policy engine returned:
\* "; ".join raises TypeError when a violation is not a string.
validate_request(review, violations) ==
  IF \E i \in 1..Len(violations) : violations[i].t # "str"
  THEN [raised |-> TRUE, allowed |-> FALSE, response |-> NullValue]
  ELSE LET allowed == Len(violations) = 0
       IN [raised |-> FALSE,
           allowed |-> allowed,
           response |->
             [apiVersion |-> "admission.k8s.io/v1",
              kind |-> "AdmissionReview",
              response |->
                [uid |-> IF review.has_request THEN review.uid ELSE NullValue,
                 allowed |-> allowed,
                 status |-> [message |->
                   IF violations # <<>>
                   THEN Join([i \in 1..Len(violations) |-> violations[i].s], <<"; ">>)
                   ELSE <<"Allowed">>]]]]

\* The admission reviews: without a request, or with one whose uid is
\* absent or given.
Review(has_request, uid) == [has_request |-> has_request, uid |-> uid]

Reviews ==
  {Review(FALSE, NullValue), Review(TRUE, NullValue),
   Review(TRUE, Str(<<"uid-1">>)), Review(TRUE, Str(<<"uid-2">>))}

NoResponse == [raised |-> FALSE, allowed |-> FALSE, response |-> NullValue]

AdmIdle ==
  /\ adm_pc = "idle"
  /\ adm_review = Review(FALSE, NullValue)
  /\ adm_files = <<>>
  /\ adm_violations = <<>>
  /\ adm_tmp = {}
  /\ adm_log = <<>>
  /\ adm_response = NoResponse

\* Faulty variant: a policy directory without a *.rego file is a violation.
AdmReceive_fail_closed(review, files) ==
  /\ adm_pc = "idle"
  /\ adm_pc' = "file"
  /\ adm_review' = review
  /\ adm_files' = files
  /\ adm_violations' = IF files = <<>> THEN <<Str(<<"no policy files">>)>> ELSE adm_violations
  /\ UNCHANGED <<adm_tmp, adm_log, adm_response, proxyVars, ciVars, cosVars, nvVars, atsVars, stVars, wsVars, cmdVars, clientVars, ovVars, gpVars>>

\* validate_request is called; evaluate_policies lists the policy files.
AdmReceive(review, files) ==
  /\ adm_pc = "idle"
  /\ adm_pc' = "file"
  /\ adm_review' = review
  /\ adm_files' = files
  /\ UNCHANGED <<adm_violations, adm_tmp, adm_log, adm_response, proxyVars, ciVars, cosVars, nvVars, atsVars, stVars, wsVars, cmdVars, clientVars, ovVars, gpVars>>

CurrentPolicy == adm_files[Len(adm_log) + 1]

LogEntry(file, kind, raised, added) ==
  [file |-> file, kind |-> kind, raised |-> raised, added |-> added]

\* The temporary input file of the next policy file is written: created
\* and filled, or NamedTemporaryFile raises, or json.dump raises after the
\* file was created (delete=False leaves it).
AdmWriteInput(how) ==
  /\ adm_pc = "file"
  /\ Len(adm_log) < Len(adm_files)
  /\ IF how = "written"
     THEN /\ adm_pc' = "run"
          /\ adm_tmp' = adm_tmp \cup {CurrentPolicy}
          /\ UNCHANGED <<adm_violations, adm_log>>
     ELSE LET added == evaluate_policy_file(CurrentPolicy, [raised |-> TRUE, added |-> <<>>])
          IN /\ adm_pc' = "file"
             /\ adm_tmp' = IF how = "dump failed" THEN adm_tmp \cup {CurrentPolicy} ELSE adm_tmp
             /\ adm_violations' = adm_violations \o added
             /\ adm_log' = Append(adm_log, LogEntry(CurrentPolicy, how, TRUE, added))
  /\ UNCHANGED <<adm_review, adm_files, adm_response, proxyVars, ciVars, cosVars, nvVars, atsVars, stVars, wsVars, cmdVars, clientVars, ovVars, gpVars>>

\* opa runs for the current policy file and its result is walked; the
\* temporary file is unlinked in the finally block.
AdmRun(outcome) ==
  /\ adm_pc = "run"
  /\ LET single == evaluate_single_policy(outcome)
         res == IF single.raised THEN [raised |-> TRUE, added |-> <<>>]
                ELSE extract_violations(single.result)
         added == evaluate_policy_file(CurrentPolicy, res)
         kind == IF outcome.kind = "exit0" /\ outcome.stdout = Unparsable
                 THEN "unparsable output" ELSE outcome.kind
     IN /\ adm_violations' = adm_violations \o added
        /\ adm_log' = Append(adm_log, LogEntry(CurrentPolicy, kind, res.raised, added))
  /\ adm_tmp' = adm_tmp \ {CurrentPolicy}
  /\ adm_pc' = "file"
  /\ UNCHANGED <<adm_review, adm_files, adm_response, proxyVars, ciVars, cosVars, nvVars, atsVars, stVars, wsVars, cmdVars, clientVars, ovVars, gpVars>>

\* evaluate_policies returns and validate_request builds its answer.
AdmRespond ==
  /\ adm_pc = "file"
  /\ Len(adm_log) = Len(adm_files)
  /\ adm_response' = validate_request(adm_review, adm_violations)
  /\ adm_pc' = IF adm_response'.raised THEN "raised" ELSE "done"
  /\ UNCHANGED <<adm_review, adm_files, adm_violations, adm_tmp, adm_log, proxyVars, ciVars, cosVars, nvVars, atsVars, stVars, wsVars, cmdVars, clientVars, ovVars, gpVars>>

\* -------------------------------- claims on the admission controller
RECURSIVE AllAdded(_)
AllAdded(log) == IF log = <<>> THEN <<>> ELSE Head(log).added \o AllAdded(Tail(log))

Count(seq, x) == Cardinality({i \in 1..Len(seq) : seq[i] = x})

C8_FailSecure ==
  /\ \A i \in 1..Len(adm_log) :
       LET e == adm_log[i]
       IN /\ e.file = adm_files[i]
          /\ e.kind \in {"timeout", "missing binary", "unparsable output"} =>
               e.added = <<ErrorViolation(e.file)>>
          /\ e.raised =>
               /\ Count(e.added, ErrorViolation(e.file)) = 1
               /\ e.added[Len(e.added)] = ErrorViolation(e.file)
          /\ ~e.raised => Count(e.added, ErrorViolation(e.file)) = 0
  /\ adm_violations = AllAdded(adm_log)
  /\ adm_pc \in {"done", "raised"} => Len(adm_log) = Len(adm_files)
  /\ adm_pc = "done" =>
       (adm_response.allowed <=> \A i \in 1..Len(adm_log) : adm_log[i].added = <<>>)

\* C8 witness: the first file timed out, the second was still evaluated and
\* reported a violation of its own, and the request was denied.
C8_Witness ==
  /\ adm_pc = "done"
  /\ Len(adm_log) = 2
  /\ adm_log[1].kind = "timeout"
  /\ adm_log[1].added = <<ErrorViolation(adm_files[1])>>
  /\ adm_log[2].kind = "exit0"
  /\ adm_log[2].added = <<Str(<<"privileged">>)>>
  /\ ~adm_response.allowed

\* part occurs in text as a run of consecutive tokens.
Names(text, part) ==
  \E k \in 0..(Len(text) - Len(part)) :
    \A j \in 1..Len(part) : text[k + j] = part[j]

\* What opa can write to stderr when it exits non-zero.
Stderrs == {o.stderr : o \in {x \in OpaOutcomes : x.kind = "nonzero"}}

\* C27: a policy file for which opa exited non-zero adds exactly one
\* violation, whose message names opa's stderr text; and once the
\* evaluation of a file is over, on success or on failure, its temporary
\* input file is gone.
C27_NonZeroExit ==
  /\ \A i \in 1..Len(adm_log) :
       adm_log[i].kind = "nonzero" =>
         /\ Len(adm_log[i].added) = 1
         /\ adm_log[i].added[1].t = "str"
         /\ \E stderr \in Stderrs : Names(adm_log[i].added[1].s, stderr)
  /\ adm_pc \in {"file", "done", "raised"} => adm_tmp = {}

\* C30: with no *.rego file in the policy directory (an empty directory
\* and a missing one both make glob yield nothing) evaluate_policies
\* returns no violation, no temporary file is written and opa is not run,
\* and validate_request allows the request with the message "Allowed".
C30_EmptyPolicySetAllows ==
  (adm_pc # "idle" /\ adm_files = <<>>) =>
    /\ adm_log = <<>>
    /\ adm_tmp = {}
    /\ adm_violations = <<>>
    /\ adm_pc \in {"file", "done"}
    /\ adm_pc = "done" =>
         /\ adm_response.allowed
         /\ adm_response.response.response.allowed
         /\ adm_response.response.response.status.message = <<"Allowed">>

\* C30 witness: a review with a uid was allowed with no policy file.
C30_Witness ==
  /\ adm_pc = "done"
  /\ adm_files = <<>>
  /\ adm_review = Review(TRUE, Str(<<"uid-2">>))
  /\ adm_response.allowed
  /\ adm_response.response.response.status.message = <<"Allowed">>

NextAdmission ==
  \/ \E review \in Reviews, files \in PolicyDirs : AdmReceive(review, files)
  \/ \E how \in {"written", "create failed", "dump failed"} : AdmWriteInput(how)
  \/ \E outcome \in OpaOutcomes : AdmRun(outcome)
  \/ AdmRespond

\* ======================================================================
\* Cosign image-signature validator (sek8s/validators/cosign.py)
\* ======================================================================
\* An image reference is a text whose tokens are the separators "/", ":",
\* "@", "." and the runs of other characters between them.
Contains(s, c) == \E i \in 1..Len(s) : s[i] = c

FirstIndex(s, c) == CHOOSE i \in 1..Len(s) : s[i] = c /\ \A j \in 1..(i - 1) : s[j] # c

LastIndex(s, c) == CHOOSE i \in 1..Len(s) : s[i] = c /\ \A j \in (i + 1)..Len(s) : s[j] # c

\* s.split(c)
RECURSIVE Split(_, _)
Split(s, c) ==
  IF ~Contains(s, c) THEN <<s>>
  ELSE <<SubSeq(s, 1, FirstIndex(s, c) - 1)>> \o Split(SubSeq(s, FirstIndex(s, c) + 1, Len(s)), c)

DockerIo == <<"docker", ".", "io">>

ImageRef(registry, org, repo, tag) ==
  [raised |-> FALSE, registry |-> registry, org |-> org, repo |-> repo, tag |-> tag]

InvalidImageRef == [raised |-> TRUE, registry |-> <<>>, org |-> <<>>, repo |-> <<>>, tag |-> <<>>]

\* Faulty variant: a colon anywhere in the reference is taken for the tag separator.
parse_image_reference_any_colon(image) ==
  LET segments == Split(image, "/")
      has_digest == Contains(image, "@")
      has_tag == ~has_digest /\ Contains(image, ":")
      name == IF has_digest THEN SubSeq(image, 1, FirstIndex(image, "@") - 1)
              ELSE IF has_tag THEN SubSeq(image, 1, LastIndex(image, ":") - 1)
              ELSE image
      tag_or_digest ==
        IF has_digest THEN SubSeq(image, FirstIndex(image, "@"), Len(image))
        ELSE IF has_tag THEN SubSeq(image, LastIndex(image, ":") + 1, Len(image))
        ELSE <<"latest">>
      parts == Split(name, "/")
      first_part == parts[1]
      remaining == Tail(parts)
  IN IF ~Contains(name, "/")
     THEN ImageRef(DockerIo, <<"library">>, name, tag_or_digest)
     ELSE IF Contains(first_part, ".") \/ Contains(first_part, ":")
     THEN IF Len(remaining) = 0 THEN InvalidImageRef
          ELSE IF Len(remaining) = 1
          THEN ImageRef(first_part, <<"library">>, remaining[1], tag_or_digest)
          ELSE ImageRef(first_part, remaining[1], Join(Tail(remaining), <<"/">>), tag_or_digest)
     ELSE IF Len(parts) = 1
     THEN ImageRef(DockerIo, <<"library">>, parts[1], tag_or_digest)
     ELSE ImageRef(DockerIo, parts[1], Join(Tail(parts), <<"/">>), tag_or_digest)

parse_image_reference(image) ==
  LET segments == Split(image, "/")
      has_digest == Contains(image, "@")
      has_tag == ~has_digest /\ Contains(segments[Len(segments)], ":")
      name == IF has_digest THEN SubSeq(image, 1, FirstIndex(image, "@") - 1)
              ELSE IF has_tag THEN SubSeq(image, 1, LastIndex(image, ":") - 1)
              ELSE image
      tag_or_digest ==
        IF has_digest THEN SubSeq(image, FirstIndex(image, "@"), Len(image))
        ELSE IF has_tag THEN SubSeq(image, LastIndex(image, ":") + 1, Len(image))
        ELSE <<"latest">>
      parts == Split(name, "/")
      first_part == parts[1]
      remaining == Tail(parts)
  IN IF ~Contains(name, "/")
     THEN ImageRef(DockerIo, <<"library">>, name, tag_or_digest)
     ELSE IF Contains(first_part, ".") \/ Contains(first_part, ":")
     THEN IF Len(remaining) = 0 THEN InvalidImageRef
          ELSE IF Len(remaining) = 1
          THEN ImageRef(first_part, <<"library">>, remaining[1], tag_or_digest)
          ELSE ImageRef(first_part, remaining[1], Join(Tail(remaining), <<"/">>), tag_or_digest)
     ELSE IF Len(parts) = 1
     THEN ImageRef(DockerIo, <<"library">>, parts[1], tag_or_digest)
     ELSE ImageRef(DockerIo, parts[1], Join(Tail(parts), <<"/">>), tag_or_digest)

CosImages ==
  { <<"nginx", ":", "latest">>,
    <<"nginx">>,
    <<"parachutes", "/", "chutes-agent", ":", "k3s">>,
    <<"gcr", ".", "io", "/", "distroless", "/", "base", ":", "latest">>,
    <<"gcr", ".", "io", "/", "my-project", "/", "subdir", "/", "app", ":", "v1">>,
    <<"registry", ".", "k8s", ".", "io", "/", "pause", ":", "3", ".", "9">>,
    <<"localhost", ":", "5000", "/", "app">>,
    <<"localhost", ":", "5000", "/", "org", "/", "app", ":", "v2">>,
    <<"app", "@", "sha256", ":", "abc">>,
    <<"gcr", ".", "io", "/", "org", "/", "app", "@", "sha256", ":", "abc">>,
    <<"user", "/", "sub", "/", "app">> }

PairImages ==
  { <<"nginx", ":", "latest">>,
    <<"localhost", ":", "5000", "/", "app">> }

\* What extract_images returns for the request's object.
ImageLists ==
  {<<>>} \cup {<<i>> : i \in CosImages} \cup {<<i, j>> : i \in PairImages, j \in PairImages}

PodKinds == {"Pod", "Deployment", "StatefulSet", "DaemonSet", "Job", "CronJob", "ReplicaSet"}

\* request.kind.kind ("" when absent) and request.operation ("None" when
\* absent).
CosRequests ==
  [kind : {"Pod", "CronJob", "Service", ""},
   operation : {"CREATE", "UPDATE", "DELETE", "None"}]

\* What get_verification_config gives for an image: nothing, an exception,
\* or a configuration.
VerificationConfig(found, method, require_signature, public_key, keyless) ==
  [found |-> found, method |-> method, require_signature |-> require_signature,
   public_key |-> public_key, keyless |-> keyless]

NoConfig == VerificationConfig("none", "disabled", FALSE, FALSE, FALSE)

ConfigLookupRaises == VerificationConfig("raises", "disabled", FALSE, FALSE, FALSE)

VerificationConfigs ==
  {NoConfig, ConfigLookupRaises}
    \cup {VerificationConfig("config", m, r, k, k) :
            m \in {"disabled", "key", "keyless", "kms"}, r \in BOOLEAN, k \in BOOLEAN}

\* What the cosign process does: it cannot be started, or it exits with a
\* status and an output.
CosignRun(kind, returncode, output) == [kind |-> kind, returncode |-> returncode, output |-> output]

CosignRuns ==
  {CosignRun("raises", 1, "not json")}
    \cup {CosignRun("exit", c, o) : c \in {0, 1}, o \in {"not json", "empty list", "list", "object"}}

verify_with_key(cfg, run) ==
  IF ~cfg.public_key THEN FALSE
  ELSE IF run.kind = "raises" THEN FALSE
  ELSE run.returncode = 0 /\ run.output # "not json"

verify_keyless(cfg, run) ==
  IF ~cfg.keyless THEN FALSE
  ELSE IF run.kind = "raises" THEN FALSE
  ELSE run.returncode = 0 /\ run.output = "list"

verify_image_signature(cfg, run) ==
  IF cfg.method = "key" THEN verify_with_key(cfg, run)
  ELSE IF cfg.method = "keyless" THEN verify_keyless(cfg, run)
  ELSE FALSE

InvalidSignature(image, ref) ==
  <<"Image ">> \o image \o <<" has invalid or missing signature (registry: ">>
    \o ref.registry \o <<", org: ">> \o ref.org \o <<")">>

VerificationFailed(image, exc) == <<"Verification failed for ">> \o image \o <<": ", exc>>

ImageOutcome(verified, added) == [verified |-> verified, added |-> added]

\* Faulty variant: an exception while an image is processed is only logged.
validate_image_swallow(image, cfg, run) ==
  LET ref == parse_image_reference(image)
  IN IF ref.raised THEN ImageOutcome("raised", <<>>)
     ELSE IF cfg.found = "raises" THEN ImageOutcome("raised", <<>>)
     ELSE IF cfg.found = "none" THEN ImageOutcome("skipped", <<>>)
     ELSE IF cfg.method = "disabled" \/ ~cfg.require_signature THEN ImageOutcome("skipped", <<>>)
     ELSE IF verify_image_signature(cfg, run) THEN ImageOutcome("true", <<>>)
     ELSE ImageOutcome("false", <<InvalidSignature(image, ref)>>)

\* The body of validate's loop for one image.
validate_image(image, cfg, run) ==
  LET ref == parse_image_reference(image)
  IN IF ref.raised
     THEN ImageOutcome("raised", <<VerificationFailed(image, "Invalid image reference")>>)
     ELSE IF cfg.found = "raises"
     THEN ImageOutcome("raised", <<VerificationFailed(image, "config error")>>)
     ELSE IF cfg.found = "none" THEN ImageOutcome("skipped", <<>>)
     ELSE IF cfg.method = "disabled" \/ ~cfg.require_signature THEN ImageOutcome("skipped", <<>>)
     ELSE IF verify_image_signature(cfg, run) THEN ImageOutcome("true", <<>>)
     ELSE ImageOutcome("false", <<InvalidSignature(image, ref)>>)

Allow == [allowed |-> TRUE, reason |-> <<>>]

Deny(reason) == [allowed |-> FALSE, reason |-> reason]

CosIdle ==
  /\ cos_pc = "idle"
  /\ cos_request = [kind |-> "", operation |-> "None"]
  /\ cos_images = <<>>
  /\ cos_violations = <<>>
  /\ cos_log = <<>>
  /\ cos_result = Allow

\* validate up to its loop: the kind, the operation, the extracted images.
CosValidate(request, images) ==
  /\ cos_pc = "idle"
  /\ cos_request' = request
  /\ cos_images' = images
  /\ IF request.kind \notin PodKinds \/ request.operation = "DELETE" \/ images = <<>>
     THEN cos_pc' = "done" /\ cos_result' = Allow
     ELSE cos_pc' = "images" /\ UNCHANGED cos_result
  /\ UNCHANGED <<cos_violations, cos_log, proxyVars, ciVars, admVars, nvVars, atsVars, stVars, wsVars, cmdVars, clientVars, ovVars, gpVars>>

\* One turn of the loop.
CosImage(cfg, run) ==
  /\ cos_pc = "images"
  /\ Len(cos_log) < Len(cos_images)
  /\ LET image == cos_images[Len(cos_log) + 1]
         out == validate_image(image, cfg, run)
     IN /\ cos_violations' = cos_violations \o out.added
        /\ cos_log' = Append(cos_log,
             [image |-> image, ref |-> parse_image_reference(image), cfg |-> cfg,
              verified |-> out.verified, added |-> out.added])
  /\ UNCHANGED <<cos_pc, cos_request, cos_images, cos_result, proxyVars, ciVars, admVars, nvVars, atsVars, stVars, wsVars, cmdVars, clientVars, ovVars, gpVars>>

\* After the loop.
CosReturn ==
  /\ cos_pc = "images"
  /\ Len(cos_log) = Len(cos_images)
  /\ cos_pc' = "done"
  /\ cos_result' = IF cos_violations # <<>> THEN Deny(Join(cos_violations, <<"; ">>)) ELSE Allow
  /\ UNCHANGED <<cos_request, cos_images, cos_violations, cos_log, proxyVars, ciVars, admVars, nvVars, atsVars, stVars, wsVars, cmdVars, clientVars, ovVars, gpVars>>

\* ------------------------------------- claims on the cosign validator
\* C9: a DELETE or a kind that creates no pod is allowed with no image
\* processed; otherwise every extracted image is processed in order, an
\* image without configuration, with method disabled or with
\* require_signature false adds no violation, an image whose verification
\* gave false or whose processing raised adds exactly one, a verified image
\* adds none, and the result is allow exactly when no image added a
\* violation, else deny with all the violations joined by "; ".
C9_CosignDecision ==
  cos_pc = "done" =>
    IF cos_request.operation = "DELETE" \/ cos_request.kind \notin PodKinds
    THEN cos_result = Allow /\ cos_log = <<>>
    ELSE /\ Len(cos_log) = Len(cos_images)
         /\ \A i \in 1..Len(cos_log) :
              LET e == cos_log[i]
              IN /\ e.image = cos_images[i]
                 /\ e.cfg.found = "none" => e.added = <<>>
                 /\ (e.cfg.found = "config" /\ (e.cfg.method = "disabled" \/ ~e.cfg.require_signature))
                      => e.added = <<>>
                 /\ e.verified \in {"false", "raised"} => Len(e.added) = 1
                 /\ e.verified \in {"true", "skipped"} => e.added = <<>>
         /\ cos_result.allowed <=> \A i \in 1..Len(cos_log) : cos_log[i].added = <<>>
         /\ ~cos_result.allowed =>
              cos_result.reason =
                Join([i \in 1..Len(cos_violations) |-> cos_violations[i]], <<"; ">>)
         /\ cos_violations = AllAdded(cos_log)

\* C9 witness: a Pod with two images, the first failing verification and
\* the second's configuration lookup raising, was denied with both reasons.
C9_Witness ==
  /\ cos_pc = "done"
  /\ cos_request.kind = "Pod"
  /\ cos_request.operation = "CREATE"
  /\ Len(cos_log) = 2
  /\ cos_log[1].verified = "false"
  /\ cos_log[2].verified = "raised"
  /\ ~cos_result.allowed
  /\ Len(cos_violations) = 2
  /\ Contains(cos_result.reason, "; ")

\* C16, the reference written as its path segments: the text before the
\* digest, split on '/', with the tag taken off the last segment.
NameOf(image) ==
  IF Contains(image, "@") THEN SubSeq(image, 1, FirstIndex(image, "@") - 1) ELSE image

Tagged(image) ==
  ~Contains(image, "@") /\ Contains(Split(image, "/")[Len(Split(image, "/"))], ":")

Segments(image) ==
  LET segs == Split(NameOf(image), "/")
      last == segs[Len(segs)]
  IN IF Tagged(image)
     THEN SubSeq(segs, 1, Len(segs) - 1) \o <<SubSeq(last, 1, LastIndex(last, ":") - 1)>>
     ELSE segs

TagOf(image) ==
  LET segs == Split(image, "/")
      last == segs[Len(segs)]
  IN IF Contains(image, "@") THEN SubSeq(image, FirstIndex(image, "@"), Len(image))
     ELSE IF Tagged(image) THEN SubSeq(last, LastIndex(last, ":") + 1, Len(last))
     ELSE <<"latest">>

ParsedAs(image, ref) ==
  LET names == Segments(image)
  IN /\ ~ref.raised
     /\ ref.tag = TagOf(image)
     /\ Len(names) = 1 =>
          ref.registry = DockerIo /\ ref.org = <<"library">> /\ ref.repo = names[1]
     /\ (Len(names) >= 2 /\ (Contains(names[1], ".") \/ Contains(names[1], ":"))) =>
          /\ ref.registry = names[1]
          /\ Len(names) = 2 => ref.org = <<"library">> /\ ref.repo = names[2]
          /\ Len(names) >= 3 =>
               ref.org = names[2] /\ ref.repo = Join(SubSeq(names, 3, Len(names)), <<"/">>)
     /\ (Len(names) >= 2 /\ ~Contains(names[1], ".") /\ ~Contains(names[1], ":")) =>
          /\ ref.registry = DockerIo
          /\ ref.org = names[1]
          /\ ref.repo = Join(SubSeq(names, 2, Len(names)), <<"/">>)

\* The five examples of the reference table.
TableEntry(image, ref) ==
  /\ image = <<"nginx", ":", "latest">> =>
       ref = ImageRef(DockerIo, <<"library">>, <<"nginx">>, <<"latest">>)
  /\ image = <<"parachutes", "/", "chutes-agent", ":", "k3s">> =>
       ref = ImageRef(DockerIo, <<"parachutes">>, <<"chutes-agent">>, <<"k3s">>)
  /\ image = <<"gcr", ".", "io", "/", "distroless", "/", "base", ":", "latest">> =>
       ref = ImageRef(<<"gcr", ".", "io">>, <<"distroless">>, <<"base">>, <<"latest">>)
  /\ image = <<"gcr", ".", "io", "/", "my-project", "/", "subdir", "/", "app", ":", "v1">> =>
       ref = ImageRef(<<"gcr", ".", "io">>, <<"my-project">>, <<"subdir", "/", "app">>, <<"v1">>)
  /\ image = <<"registry", ".", "k8s", ".", "io", "/", "pause", ":", "3", ".", "9">> =>
       ref = ImageRef(<<"registry", ".", "k8s", ".", "io">>, <<"library">>, <<"pause">>,
                      <<"3", ".", "9">>)

\* C16: every processed image reference is parsed by the rules: the tag
\* comes from the last path segment only and defaults to latest; without a
\* '/' the result is (docker.io, library, image, tag); a first segment with
\* '.' or ':' is the registry, with organization library for one remaining
\* segment, else the next segment as organization and the rest joined by
\* '/' as repository; otherwise the registry is docker.io and the first
\* segment the organization; and the five table entries map as listed.
C16_ParseImageReference ==
  \A i \in 1..Len(cos_log) :
    /\ ParsedAs(cos_log[i].image, cos_log[i].ref)
    /\ TableEntry(cos_log[i].image, cos_log[i].ref)

\* C16 witness: a reference with a registry port and no tag was parsed.
C16_Witness ==
  \E i \in 1..Len(cos_log) :
    /\ cos_log[i].image = <<"localhost", ":", "5000", "/", "app">>
    /\ cos_log[i].ref =
         ImageRef(<<"localhost", ":", "5000">>, <<"library">>, <<"app">>, <<"latest">>)

NextCosign ==
  \/ \E request \in CosRequests, images \in ImageLists : CosValidate(request, images)
  \/ \E cfg \in VerificationConfigs, run \in CosignRuns : CosImage(cfg, run)
  \/ CosReturn

\* ======================================================================
\* Nonce formatting utility (nvevidence/chutes_nvevidence/util.py)
\* ======================================================================
\* A nonce is a sequence of characters; a character is named by a token
\* and has the UTF-8 bytes below.  len() counts characters.
NonceChars == {"a", "Z", "7", "e-acute", "euro"}

Utf8(c) ==
  CASE c = "a" -> <<97>>
    [] c = "Z" -> <<90>>
    [] c = "7" -> <<55>>
    [] c = " " -> <<32>>
    [] c = "\n" -> <<10>>
    [] c = "\t" -> <<9>>
    [] c = "e-acute" -> <<195, 169>>
    [] c = "euro" -> <<226, 130, 172>>

HexDigits == <<"0", "1", "2", "3", "4", "5", "6", "7", "8", "9", "a", "b", "c", "d", "e", "f">>

\* bytes.hex() of one byte
HexOfByte(b) == <<HexDigits[(b \div 16) + 1], HexDigits[(b % 16) + 1]>>

\* nonce.encode('utf-8').hex()
RECURSIVE HexOfText(_)
HexOfText(s) ==
  IF s = <<>> THEN <<>>
  ELSE LET bytes == Utf8(Head(s))
       IN Join([i \in 1..Len(bytes) |-> HexOfByte(bytes[i])], <<>>) \o HexOfText(Tail(s))

\* str.ljust(width, fill): never shortens.
LJust(s, width, fill) == IF Len(s) >= width THEN s ELSE s \o Rep(fill, width - Len(s))

NonceError(message) == [raised |-> TRUE, value |-> <<>>, message |-> message]

validate_and_format_nonce(nonce) ==
  LET stripped == Strip(nonce)
  IN IF Len(stripped) > 32 THEN NonceError("Nonce too long")
     ELSE IF Len(stripped) = 0 THEN NonceError("Nonce cannot be empty")
     ELSE [raised |-> FALSE, value |-> LJust(HexOfText(stripped), 64, "0"), message |-> ""]

\* The nonces given to the utility: n copies of one character, possibly
\* after a different first character, possibly inside whitespace.
Nonces ==
  {lead \o first \o Rep(c, n) \o trail :
     lead \in {<<>>, <<" ">>}, trail \in {<<>>, <<"\n">>},
     first \in {<<>>, <<"a">>}, c \in NonceChars, n \in 0..MaxNonceLen}

NvIdle ==
  /\ nv_pc = "idle"
  /\ nv_nonce = <<>>
  /\ nv_result = [raised |-> FALSE, value |-> <<>>, message |-> ""]

\* The call of validate_and_format_nonce in one run of the evidence command.
NvFormat(nonce) ==
  /\ nv_pc = "idle"
  /\ nv_pc' = "returned"
  /\ nv_nonce' = nonce
  /\ nv_result' = validate_and_format_nonce(nonce)
  /\ UNCHANGED <<proxyVars, ciVars, admVars, cosVars, atsVars, stVars, wsVars, cmdVars, clientVars, ovVars, gpVars>>

\* C15: an input whose trimmed form is empty or longer than 32 characters
\* is rejected, and every accepted input gives exactly 64 hexadecimal
\* characters: the hex encoding of the trimmed input's UTF-8 bytes followed
\* only by '0' padding.
C15_NonceWidth ==
  nv_pc = "returned" =>
    /\ nv_result.raised <=> (Len(Strip(nv_nonce)) = 0 \/ Len(Strip(nv_nonce)) > 32)
    /\ ~nv_result.raised =>
         /\ Len(nv_result.value) = 64
         /\ AllIn(nv_result.value, {HexDigits[i] : i \in 1..16})
         /\ \E k \in 0..64 :
              /\ SubSeq(nv_result.value, 1, k) = HexOfText(Strip(nv_nonce))
              /\ \A i \in (k + 1)..64 : nv_result.value[i] = "0"

NextNonce == \E nonce \in Nonces : NvFormat(nonce)

\* ======================================================================
\* Attestation server (sek8s/services/attestation.py) and its providers
\* ======================================================================
\* An exception: its class and str(e).
Exc(cls, msg) == [cls |-> cls, msg |-> msg]

NoExc == Exc("none", <<>>)

Returned(value) == [raised |-> NoExc, value |-> value]

Raising(e) == [raised |-> e, value |-> <<>>]

\* TdxQuoteProvider.get_quote: how the quote generator ran.  The exception
\* raised for a non-zero exit is raised inside the try block, so the
\* except clause catches it like any other and raises its own.
TdxQuoteProvider_get_quote(run) ==
  IF run = "exit 0" THEN Returned(<<"quote bytes">>)
  ELSE Raising(Exc("TdxQuoteException", <<"Unexpected error generating TDX quote.">>))

\* NvEvidenceProvider.get_evidence: name_is_text is whether the name
\* argument is a string; a non-string argument makes the process creation
\* raise, whatever the command would have done.
NvEvidenceProvider_get_evidence(name_is_text, run) ==
  IF name_is_text /\ run = "exit 0" THEN Returned(<<"evidence bytes">>)
  ELSE Raising(Exc("NvTrustException", <<"Unexpected error gathering GPU evidence.">>))

ProviderRuns == {"exit 0", "exit 1", "spawn error"}

\* What code outside these sources may raise inside attest's try block:
\* reading self.config.host, building the AttestationResponse.
NoHostAttribute == Exc("AttributeError", <<"object has no attribute 'host'">>)

InvalidResponse == Exc("ValidationError", <<"1 validation error for AttestationResponse">>)

AtsHTTPException(status_code, detail) ==
  [status |-> status_code, detail |-> detail, body |-> <<>>]

Ok200(body) == [status |-> 200, detail |-> <<>>, body |-> body]

NoAnswer == [status |-> 0, detail |-> <<>>, body |-> <<>>]

\* The outcome of a handler: the answer and the exception it caught.
Handled(answer, e) == [answer |-> answer, caught |-> e]

\* The except clauses of attest.  derived: whether the exception's class
\* derives from AttestationException (sek8s/exceptions.py decides).
attest_except(e, derived) ==
  IF derived
  THEN Handled(AtsHTTPException(500, e.msg), e)
  ELSE Handled(AtsHTTPException(500,
         <<"Unexpected exception encountered generating attestaion data: ">> \o e.msg), e)

\* AttestationServer.attest.  at_host and at_response are what reading
\* self.config.host and building the response raise (NoExc: nothing).
attest(tdx_run, nv_run, at_host, at_response, provider_derived) ==
  LET quote == TdxQuoteProvider_get_quote(tdx_run)
      evidence == NvEvidenceProvider_get_evidence(TRUE, nv_run)
  IN IF quote.raised # NoExc THEN attest_except(quote.raised, provider_derived)
     ELSE IF at_host # NoExc THEN attest_except(at_host, FALSE)
     ELSE IF evidence.raised # NoExc THEN attest_except(evidence.raised, provider_derived)
     ELSE IF at_response # NoExc THEN attest_except(at_response, FALSE)
     ELSE Handled(Ok200(<<"base64 of ">> \o quote.value \o evidence.value), NoExc)

\* AttestationServer.get_quote
get_quote(tdx_run) ==
  LET quote == TdxQuoteProvider_get_quote(tdx_run)
  IN IF quote.raised # NoExc
     THEN Handled(AtsHTTPException(500, <<"Unexpected error generating TDX quote.">>), quote.raised)
     ELSE Handled(Ok200(<<"base64 of ">> \o quote.value), NoExc)

\* AttestationServer.get_evidence.  The method has no self parameter: the
\* bound method receives the server as name, and the provider is called
\* with it.
get_evidence(nv_run) ==
  LET evidence == NvEvidenceProvider_get_evidence(FALSE, nv_run)
  IN IF evidence.raised # NoExc
     THEN Handled(AtsHTTPException(500, <<"Unexpected error gathering GPU evidence.">>),
                  evidence.raised)
     ELSE Handled(Ok200(evidence.value), NoExc)

\* The routes _setup_routes registers.
Routes == {"/attest", "/tdx/quote", "/nvtrust/evidence"}

\* s.replace(old, ""): every occurrence, left to right.
RECURSIVE Remove(_, _)
Remove(s, old) ==
  IF Len(s) < Len(old) THEN s
  ELSE IF SubSeq(s, 1, Len(old)) = old THEN Remove(SubSeq(s, Len(old) + 1, Len(s)), old)
  ELSE <<Head(s)>> \o Remove(Tail(s), old)

sanitize_gpu_id(gpu_id) ==
  Remove(Remove(Remove(gpu_id, <<"G", "P", "U", "-">>), <<"g", "p", "u", "-">>), <<"-">>)

\* GPU ids as the driver formats them, shortened.
VendorIds ==
  { <<"G", "P", "U", "-", "d", "5", "-", "0", "8">>,
    <<"G", "P", "U", "-", "d", "1", "-", "c", "d">>,
    <<"g", "p", "u", "-", "a", "7", "-", "3", "e">> }

\* The uuid field of each DeviceInfo get_device_info builds.
Uuids(driver_ids) == {sanitize_gpu_id(id) : id \in driver_ids}

\* The gpu_ids query values of a request: none, the ids repeated, or one
\* comma-joined value.
IdLists ==
  {<<>>} \cup {<<a>> : a \in VendorIds} \cup {<<a, b>> : a \in VendorIds, b \in VendorIds}

GpuIdQueries ==
  IdLists \cup {<<Join(ids, <<",">>)>> : ids \in {l \in IdLists : Len(l) = 2}}

AtsRequest(route, nonce, gpu_ids) == [route |-> route, nonce |-> nonce, gpu_ids |-> gpu_ids]

AtsIdle ==
  /\ ats_inventory = {}
  /\ ats_request = AtsRequest("", <<>>, <<>>)
  /\ ats_raised = NoExc
  /\ ats_response = NoAnswer

AtsAnswer(request, handled) ==
  /\ ats_request' = request
  /\ ats_raised' = handled.caught
  /\ ats_response' = handled.answer
  /\ UNCHANGED <<ats_inventory, proxyVars, ciVars, admVars, cosVars, nvVars, stVars, wsVars, cmdVars, clientVars, ovVars, gpVars>>

\* GET /attest?nonce=
AtsAttest(nonce, tdx_run, nv_run, at_host, at_response, provider_derived) ==
  /\ "/attest" \in Routes
  /\ AtsAnswer(AtsRequest("/attest", nonce, <<>>),
               attest(tdx_run, nv_run, at_host, at_response, provider_derived))

\* GET /tdx/quote?nonce=
AtsQuote(nonce, tdx_run) ==
  /\ "/tdx/quote" \in Routes
  /\ AtsAnswer(AtsRequest("/tdx/quote", nonce, <<>>), get_quote(tdx_run))

\* GET /nvtrust/evidence?nonce=
AtsEvidence(nonce, nv_run) ==
  /\ "/nvtrust/evidence" \in Routes
  /\ AtsAnswer(AtsRequest("/nvtrust/evidence", nonce, <<>>), get_evidence(nv_run))

\* A GET of a path no route was registered for.
AtsUnrouted(route, gpu_ids) ==
  /\ route \notin Routes
  /\ AtsAnswer(AtsRequest(route, <<>>, gpu_ids),
               Handled(AtsHTTPException(404, <<"Not Found">>), NoExc))

\* The GPUs of the machine change.
AtsInventory(driver_ids) ==
  /\ ats_inventory' = Uuids(driver_ids)
  /\ UNCHANGED <<ats_request, ats_raised, ats_response,
                 proxyVars, ciVars, admVars, cosVars, nvVars, stVars, wsVars, cmdVars, clientVars, ovVars, gpVars>>

\* s occurs in t
Within(s, t) == \E i \in 0..(Len(t) - Len(s)) : SubSeq(t, i + 1, i + Len(s)) = s

\* C18: on every route of the attestation server, a failure answered 500
\* carries the failure's own message when the failure is a TDX quote
\* failure or an NVTrust evidence failure, and for any other exception the
\* message does not contain the exception's text.
C18_FailureMessages ==
  (ats_request.route \in Routes /\ ats_response.status = 500) =>
    IF ats_raised.cls \in {"TdxQuoteException", "NvTrustException"}
    THEN Within(ats_raised.msg, ats_response.detail)
    ELSE ~Within(ats_raised.msg, ats_response.detail)

\* The ids a request's gpu_ids values name: each value split at commas.
RECURSIVE SuppliedIds(_)
SuppliedIds(values) ==
  IF values = <<>> THEN {}
  ELSE {p \in {Split(Head(values), ",")[i] : i \in 1..Len(Split(Head(values), ","))} : p # <<>>}
       \cup SuppliedIds(Tail(values))

\* C19: GET /devices answers with the devices whose stored UUID is the
\* sanitized form of a supplied id, the same for repeated and for
\* comma-joined gpu_ids, and with the full inventory when no id is given.
C19_DevicesByIds ==
  ats_request.route = "/devices" =>
    /\ ats_response.status = 200
    /\ ats_response.body =
         IF ats_request.gpu_ids = <<>> THEN ats_inventory
         ELSE {u \in ats_inventory :
                 \E id \in SuppliedIds(ats_request.gpu_ids) : u = sanitize_gpu_id(id)}

NextAttestation ==
  \/ \E nonce \in {<<>>, <<"n1">>}, tdx_run \in ProviderRuns, nv_run \in ProviderRuns,
        at_host \in {NoExc, NoHostAttribute}, at_response \in {NoExc, InvalidResponse},
        provider_derived \in BOOLEAN :
       AtsAttest(nonce, tdx_run, nv_run, at_host, at_response, provider_derived)
  \/ \E nonce \in {<<>>, <<"n1">>}, tdx_run \in ProviderRuns : AtsQuote(nonce, tdx_run)
  \/ \E nonce \in {<<>>, <<"n1">>}, nv_run \in ProviderRuns : AtsEvidence(nonce, nv_run)
  \/ \E gpu_ids \in GpuIdQueries : AtsUnrouted("/devices", gpu_ids)
  \/ \E driver_ids \in SUBSET VendorIds : AtsInventory(driver_ids)

\* ======================================================================
\* System status server (sek8s/services/system_status.py): service logs
\* ======================================================================
SERVICE_ALLOWLIST ==
  {"admission-controller", "attestation-service", "k3s", "nvidia-persistenced",
   "nvidia-fabricmanager"}

\* ServiceDefinition.unit of an allowlisted service
Unit(service_id) == <<service_id, ".service">>

\* The settings get_service_logs reads.
Unconfigured ==
  [log_tail_max |-> 0, log_tail_default |-> 0, log_window_max_minutes |-> 0,
   max_output_bytes |-> 0]

Configs ==
  { [log_tail_max |-> 1000, log_tail_default |-> 200, log_window_max_minutes |-> 60,
     max_output_bytes |-> 100],
    [log_tail_max |-> 1, log_tail_default |-> 1, log_window_max_minutes |-> 60,
     max_output_bytes |-> 100],
    [log_tail_max |-> 1000, log_tail_default |-> 200, log_window_max_minutes |-> 120,
     max_output_bytes |-> 3] }

max(a, b) == IF a >= b THEN a ELSE b

min(a, b) == IF a <= b THEN a ELSE b

\* A request's path and query parameters; since_minutes 0: not given.
LogsRequest(service_id, lines, since_minutes) ==
  [service_id |-> service_id, lines |-> lines, since_minutes |-> since_minutes]

\* The argument list: journalctl --unit= --no-pager --output=short --lines=
\* and, when since is not 0, --since= that many minutes before now.
Journalctl(unit, lines, since) ==
  [argv0 |-> "journalctl", unit |-> unit, lines |-> lines, since |-> since]

NoCommand == [argv0 |-> "", unit |-> <<>>, lines |-> 0, since |-> 0]

\* How a command ends.
Exited(exit_code, stdout, stderr) ==
  [kind |-> "exited", exit_code |-> exit_code, stdout |-> stdout, stderr |-> stderr]

Stdouts == {<<>>, <<"a", "\n", "\n", "b", "\n">>, <<"a", "\n", "b">>}

CommandOutcomes ==
  {Exited(0, out, <<>>) : out \in Stdouts}
  \cup {Exited(1, <<>>, <<"n", "o", " ", "j", "o", "u", "r", "n", "a", "l">>)}
  \cup {[kind |-> k, exit_code |-> 0, stdout |-> <<>>, stderr |-> <<>>] :
          k \in {"timeout", "missing"}}

Detail(error, command, exit_code, stderr, stderr_truncated) ==
  [error |-> error, command |-> command, exit_code |-> exit_code, stderr |-> stderr,
   stderr_truncated |-> stderr_truncated]

\* An HTTPException of the status server.
StError(status_code, detail) ==
  [status |-> status_code, detail |-> detail, service |-> <<>>, requested_lines |-> 0,
   returned_lines |-> 0, stdout_truncated |-> FALSE, logs |-> <<>>]

ServiceLogsResponse(service_id, requested_lines, returned_lines, stdout_truncated, logs) ==
  [status |-> 200, detail |-> Detail("", "", 0, <<>>, FALSE),
   service |-> <<service_id, Unit(service_id)>>, requested_lines |-> requested_lines,
   returned_lines |-> returned_lines, stdout_truncated |-> stdout_truncated, logs |-> logs]

NoStAnswer == StError(0, Detail("", "", 0, <<>>, FALSE))

truncate(value, limit) ==
  IF Len(value) <= limit THEN [value |-> value, truncated |-> FALSE]
  ELSE [value |-> SubSeq(value, 1, limit), truncated |-> TRUE]

\* _run_command: an HTTPException, or the CommandResult.
run_command(command, outcome, limit) ==
  IF outcome.kind = "timeout"
  THEN [raised |-> TRUE, error |-> StError(504, Detail("timeout", command.argv0, 0, <<>>, FALSE)),
        exit_code |-> 0, stdout |-> <<>>, stderr |-> <<>>,
        stdout_truncated |-> FALSE, stderr_truncated |-> FALSE]
  ELSE IF outcome.kind = "missing"
  THEN [raised |-> TRUE,
        error |-> StError(503, Detail("missing_binary", command.argv0, 0, <<>>, FALSE)),
        exit_code |-> 0, stdout |-> <<>>, stderr |-> <<>>,
        stdout_truncated |-> FALSE, stderr_truncated |-> FALSE]
  ELSE [raised |-> FALSE, error |-> NoStAnswer,
        exit_code |-> outcome.exit_code,
        stdout |-> truncate(outcome.stdout, limit).value,
        stderr |-> truncate(outcome.stderr, limit).value,
        stdout_truncated |-> truncate(outcome.stdout, limit).truncated,
        stderr_truncated |-> truncate(outcome.stderr, limit).truncated]

\* _ensure_success: the HTTPException it raises, NoStAnswer when it returns.
ensure_success(result, command_name) ==
  IF result.exit_code = 0 THEN NoStAnswer
  ELSE StError(502, Detail("command_failed", command_name, result.exit_code, result.stderr,
                           result.stderr_truncated))

\* str.splitlines(), for text whose only line boundary is "\n"
splitlines(s) ==
  IF s = <<>> THEN <<>>
  ELSE LET parts == Split(s, "\n")
       IN IF parts[Len(parts)] = <<>> THEN SubSeq(parts, 1, Len(parts) - 1) ELSE parts

\* Faulty variant: the requested count is not limited by log_tail_max.
clamped_lines_no_max(lines, default_lines, max_lines) ==
  max(1, IF lines # 0 THEN lines ELSE default_lines)

\* max(1, min(lines or default_lines, max_lines))
clamped_lines(lines, default_lines, max_lines) ==
  max(1, min(IF lines # 0 THEN lines ELSE default_lines, max_lines))

\* What get_service_logs did: its answer, the command it ran and what the
\* command that produced the answer wrote.
Served(response, command, stdout) ==
  [response |-> response, command |-> command, stdout |-> stdout]

\* SystemStatusServer.get_service_logs, without its cache.
get_service_logs(config, request, outcome) ==
  IF request.service_id \notin SERVICE_ALLOWLIST
  THEN Served(StError(404, Detail("service not allowed", "", 0, <<>>, FALSE)), NoCommand, <<>>)
  ELSE
    LET command ==
          Journalctl(Unit(request.service_id),
                     clamped_lines(request.lines, config.log_tail_default, config.log_tail_max),
                     IF request.since_minutes # 0
                     THEN min(request.since_minutes, config.log_window_max_minutes) ELSE 0)
        result == run_command(command, outcome, config.max_output_bytes)
        entries == SelectSeq(splitlines(result.stdout), LAMBDA line : line # <<>>)
    IN IF result.raised THEN Served(result.error, command, <<>>)
       ELSE IF ensure_success(result, "journalctl") # NoStAnswer
       THEN Served(ensure_success(result, "journalctl"), command, outcome.stdout)
       ELSE Served(ServiceLogsResponse(request.service_id, request.lines, Len(entries),
                                       result.stdout_truncated, entries),
                   command, outcome.stdout)

\* The key the cache decorator builds from the call's arguments.
CacheKey(request) == <<request.service_id, request.lines, request.since_minutes>>

Last(request, served, from_cache) ==
  [request |-> request, response |-> served.response, command |-> served.command,
   stdout |-> served.stdout, from_cache |-> from_cache]

StIdle ==
  /\ st_config = Unconfigured
  /\ st_cache = {}
  /\ st_last = Last(LogsRequest("", 0, 0), Served(NoStAnswer, NoCommand, <<>>), FALSE)

\* SystemStatusServer(config)
StStart(config) ==
  /\ st_config = Unconfigured
  /\ st_config' = config
  /\ UNCHANGED <<st_cache, st_last, proxyVars, ciVars, admVars, cosVars, nvVars, atsVars, wsVars, cmdVars, clientVars, ovVars, gpVars>>

\* GET /services/{service_id}/logs: the query validation, the cache
\* decorator and get_service_logs.  A returned response is stored in the
\* cache; an HTTPException is not.
StLogs(request, outcome) ==
  /\ st_config # Unconfigured
  /\ IF request.lines < 1
     THEN /\ st_last' = Last(request,
                             Served(StError(422, Detail("greater_than_equal", "", 0, <<>>, FALSE)),
                                    NoCommand, <<>>), FALSE)
          /\ UNCHANGED st_cache
     ELSE IF \E e \in st_cache : e.key = CacheKey(request)
     THEN /\ LET entry == CHOOSE e \in st_cache : e.key = CacheKey(request)
             IN st_last' = Last(request, Served(entry.value, NoCommand, entry.stdout), TRUE)
          /\ UNCHANGED st_cache
     ELSE LET served == get_service_logs(st_config, request, outcome)
          IN /\ st_last' = Last(request, served, FALSE)
             /\ IF served.response.status = 200
                THEN /\ Cardinality(st_cache) < MaxCached
                     /\ st_cache' = st_cache \cup
                          {[key |-> CacheKey(request), value |-> served.response,
                            stdout |-> served.stdout]}
                ELSE UNCHANGED st_cache
  /\ UNCHANGED <<st_config, proxyVars, ciVars, admVars, cosVars, nvVars, atsVars, wsVars, cmdVars, clientVars, ovVars, gpVars>>

\* A cache entry reaches its time to live (30 seconds) and is dropped.
StExpire ==
  /\ \E e \in st_cache : st_cache' = st_cache \ {e}
  /\ UNCHANGED <<st_config, st_last, proxyVars, ciVars, admVars, cosVars, nvVars, atsVars, wsVars, cmdVars, clientVars, ovVars, gpVars>>

\* v brought into [lo, hi]
ClampInto(v, lo, hi) == IF v < lo THEN lo ELSE IF v > hi THEN hi ELSE v

\* The number of non-empty lines of a text: the places where a line starts
\* with a character that is not a line break.
NonEmptyLines(s) ==
  Cardinality({i \in 1..Len(s) : s[i] # "\n" /\ (i = 1 \/ s[i - 1] = "\n")})

\* What the output cap keeps of a text.
Kept(s) == SubSeq(s, 1, min(Len(s), st_config.max_output_bytes))

\* C20 as stated: every request for the logs of an allowlisted service
\* with lines >= 1 runs journalctl with --lines equal to the requested
\* value clamped into [1, log_tail_max], and returned_lines is the number
\* of non-empty lines the command wrote to stdout; a service outside the
\* allowlist is answered 404 and no command runs.
C20_EveryLogsRequest ==
  (st_last.response.status # 0 /\ st_last.request.lines >= 1) =>
    /\ st_last.request.service_id \in SERVICE_ALLOWLIST =>
         /\ st_last.command.argv0 = "journalctl"
         /\ st_last.command.lines = ClampInto(st_last.request.lines, 1, st_config.log_tail_max)
         /\ st_last.response.status = 200 =>
              st_last.response.returned_lines = NonEmptyLines(st_last.stdout)
    /\ st_last.request.service_id \notin SERVICE_ALLOWLIST =>
         st_last.response.status = 404 /\ st_last.command = NoCommand

\* C20, amended: a request for the logs of an allowlisted service with
\* lines >= 1 that is not answered from the cache runs journalctl with
\* --lines equal to the requested value clamped into [1, log_tail_max], and
\* returned_lines is the number of non-empty lines of what the output cap
\* keeps of the command's stdout; a request answered from the cache runs no
\* command and gets the answer of the earlier request with the same
\* parameters, counted the same way; a service outside the allowlist is
\* answered 404 and no command runs.
C20_LogsClampAndCount ==
  /\ (st_last.response.status # 0 /\ st_last.request.lines >= 1) =>
       /\ (st_last.request.service_id \in SERVICE_ALLOWLIST /\ ~st_last.from_cache) =>
            /\ st_last.command.argv0 = "journalctl"
            /\ st_last.command.lines =
                 ClampInto(st_last.request.lines, 1, st_config.log_tail_max)
            /\ st_last.response.status = 200 =>
                 st_last.response.returned_lines = NonEmptyLines(Kept(st_last.stdout))
       /\ st_last.from_cache =>
            /\ st_last.command = NoCommand
            /\ st_last.response.status = 200
            /\ st_last.response.requested_lines = st_last.request.lines
            /\ st_last.response.returned_lines = NonEmptyLines(Kept(st_last.stdout))
       /\ st_last.request.service_id \notin SERVICE_ALLOWLIST =>
            st_last.response.status = 404 /\ st_last.command = NoCommand
  /\ \A e \in st_cache :
       e.value.status = 200 /\ e.value.returned_lines = NonEmptyLines(Kept(e.stdout))

\* lines=5001 against a maximum of 1000 ran journalctl with --lines=1000
\* and two non-empty lines came back.
C20_Witness ==
  /\ st_last.request = LogsRequest("k3s", 5001, 0)
  /\ st_config.log_tail_max = 1000
  /\ ~st_last.from_cache
  /\ st_last.command = Journalctl(Unit("k3s"), 1000, 0)
  /\ st_last.response.status = 200
  /\ st_last.response.returned_lines = 2

NextStatus ==
  \/ \E config \in Configs : StStart(config)
  \/ \E service_id \in {"k3s", "unknown"}, lines \in {0, 2, 5001}, since_minutes \in {0, 90},
        outcome \in CommandOutcomes :
       StLogs(LogsRequest(service_id, lines, since_minutes), outcome)
  \/ StExpire

\* ======================================================================
\* Generic web server (sek8s/server.py)
\* ======================================================================
\* The fields of ServerConfig that run reads; <<>> is None.
ServerConfig(uds_path, bind_address, port, tls_cert_path, tls_key_path, debug) ==
  [uds_path |-> uds_path, bind_address |-> bind_address, port |-> port,
   tls_cert_path |-> tls_cert_path, tls_key_path |-> tls_key_path, debug |-> debug]

\* if path: a path that is neither None nor empty
Given(path) == path # <<>>

\* A keyword-argument dictionary: <<>> is a key that is not there.
Kwargs(uds, host, port, ssl_certfile, ssl_keyfile) ==
  [uds |-> uds, host |-> host, port |-> port, ssl_certfile |-> ssl_certfile,
   ssl_keyfile |-> ssl_keyfile]

NoKwargs == Kwargs(<<>>, <<>>, <<>>, <<>>, <<>>)

\* The uvicorn_kwargs dictionary run builds.
uvicorn_kwargs(config) ==
  IF Given(config.uds_path)
  THEN Kwargs(config.uds_path, <<>>, <<>>, <<>>, <<>>)
  ELSE IF Given(config.tls_cert_path) /\ Given(config.tls_key_path)
  THEN Kwargs(<<>>, config.bind_address, config.port, config.tls_cert_path,
              config.tls_key_path)
  ELSE Kwargs(<<>>, config.bind_address, config.port, <<>>, <<>>)

\* A call of uvicorn.run, or the exception run ends with.
UvicornRun(log_level, kwargs) == [raised |-> "", log_level |-> log_level, kwargs |-> kwargs]

RunRaises(exception) == [raised |-> exception, log_level |-> "", kwargs |-> NoKwargs]

\* text ** kwargs: Python has no power of a string.
StrPow(text, kwargs) == RunRaises("TypeError")

\* WebServer.run.  The argument list of uvicorn.run has no comma between
\* the log_level value and **uvicorn_kwargs, so it is one keyword argument
\*   log_level = "debug" if debug else ("info" ** uvicorn_kwargs)
\* and the dictionary is the exponent of a string, not a set of arguments.
run(config) ==
  IF config.debug THEN UvicornRun("debug", NoKwargs)
  ELSE StrPow(<<"info">>, uvicorn_kwargs(config))

WsConfigs ==
  {ServerConfig(uds_path, bind_address, port, tls_cert_path, tls_key_path, debug) :
     uds_path \in {<<>>, <<"/run/sek8s.sock">>},
     bind_address \in {<<"127.0.0.1">>, <<"0.0.0.0">>},
     port \in {<<"8443">>, <<"8884">>},
     tls_cert_path \in {<<>>, <<"/etc/tls/tls.crt">>},
     tls_key_path \in {<<>>, <<"/etc/tls/tls.key">>},
     debug \in BOOLEAN}

WsIdle ==
  /\ ws_pc = "new"
  /\ ws_config = ServerConfig(<<>>, <<>>, <<>>, <<>>, <<>>, FALSE)
  /\ ws_serving = RunRaises("")

\* WebServer(config)
WsConstruct(config) ==
  /\ ws_pc = "new"
  /\ ws_pc' = "constructed"
  /\ ws_config' = config
  /\ UNCHANGED <<ws_serving, proxyVars, ciVars, admVars, cosVars, nvVars, atsVars, stVars, cmdVars, clientVars, ovVars, gpVars>>

\* server.run()
WsRun ==
  /\ ws_pc = "constructed"
  /\ ws_pc' = "run"
  /\ ws_serving' = run(ws_config)
  /\ UNCHANGED <<ws_config, proxyVars, ciVars, admVars, cosVars, nvVars, atsVars, stVars, cmdVars, clientVars, ovVars, gpVars>>

\* C21: run binds in exactly one mode, the Unix socket when uds_path is
\* configured and TCP at bind_address:port otherwise; on TCP, TLS is on
\* only when both the certificate and the key path are configured, and a
\* configuration with exactly one of the two fails at startup.
C21_BindMode ==
  ws_pc = "run" =>
    LET c == ws_config
        k == ws_serving.kwargs
        started == ws_serving.raised = ""
        one_of_two == Given(c.tls_cert_path) # Given(c.tls_key_path)
    IN IF Given(c.uds_path)
       THEN started /\ k.uds = c.uds_path /\ k.host = <<>> /\ k.port = <<>>
       ELSE IF one_of_two THEN ~started
       ELSE /\ started
            /\ k.uds = <<>> /\ k.host = c.bind_address /\ k.port = c.port
            /\ IF Given(c.tls_cert_path)
               THEN k.ssl_certfile = c.tls_cert_path /\ k.ssl_keyfile = c.tls_key_path
               ELSE k.ssl_certfile = <<>> /\ k.ssl_keyfile = <<>>

NextWebServer ==
  \/ \E config \in WsConfigs : WsConstruct(config)
  \/ WsRun

\* ======================================================================
\* System status server: one external command (_run_command) over time
\* ======================================================================
\* A call of _run_command: where it is, how long it has waited for the
\* child (seconds), what the child process is doing, and the HTTP status
\* raised or 0 when it returned a CommandResult.
Call(pc, binary, waited, child, exit_code, status) ==
  [pc |-> pc, binary |-> binary, waited |-> waited, child |-> child,
   exit_code |-> exit_code, status |-> status]

Callers == {1, 2}

Binaries == {"journalctl", "systemctl", "nvidia-smi", "du"}

CmdIdle == cmd_calls = [c \in Callers |-> Call("idle", "", 0, "none", 0, 0)]

\* asyncio.create_subprocess_exec: the child starts, or the binary is not
\* there and the call raises 503.
CmdSpawn(c, binary, found) ==
  /\ cmd_calls[c].pc = "idle"
  /\ cmd_calls' =
       [cmd_calls EXCEPT ![c] =
          IF found THEN Call("waiting", binary, 0, "running", 0, 0)
          ELSE Call("raised", binary, 0, "none", 0, 503)]
  /\ UNCHANGED <<proxyVars, ciVars, admVars, cosVars, nvVars, atsVars, stVars, wsVars, clientVars, ovVars, gpVars>>

\* A second passes.  wait_for's timer fires when the timeout is reached,
\* so no call waits past it.
CmdTick ==
  /\ \E c \in Callers : cmd_calls[c].pc = "waiting"
  /\ \A c \in Callers : cmd_calls[c].pc = "waiting" => cmd_calls[c].waited < CommandTimeout
  /\ cmd_calls' =
       [c \in Callers |->
          IF cmd_calls[c].pc = "waiting"
          THEN [cmd_calls[c] EXCEPT !.waited = @ + 1] ELSE cmd_calls[c]]
  /\ UNCHANGED <<proxyVars, ciVars, admVars, cosVars, nvVars, atsVars, stVars, wsVars, clientVars, ovVars, gpVars>>

\* The child process ends by itself.
CmdChildExit(c, exit_code) ==
  /\ cmd_calls[c].child = "running"
  /\ cmd_calls' = [cmd_calls EXCEPT ![c].child = "exited", ![c].exit_code = exit_code]
  /\ UNCHANGED <<proxyVars, ciVars, admVars, cosVars, nvVars, atsVars, stVars, wsVars, clientVars, ovVars, gpVars>>

\* process.communicate() completes: the CommandResult is returned.
CmdReturn(c) ==
  /\ cmd_calls[c].pc = "waiting"
  /\ cmd_calls[c].child = "exited"
  /\ cmd_calls' = [cmd_calls EXCEPT ![c].pc = "returned"]
  /\ UNCHANGED <<proxyVars, ciVars, admVars, cosVars, nvVars, atsVars, stVars, wsVars, clientVars, ovVars, gpVars>>

\* asyncio.TimeoutError: the except clause logs and raises 504.  It does
\* nothing to the process.
CmdTimeout(c) ==
  /\ cmd_calls[c].pc = "waiting"
  /\ cmd_calls[c].child = "running"
  /\ cmd_calls[c].waited >= CommandTimeout
  /\ cmd_calls' = [cmd_calls EXCEPT ![c].pc = "raised", ![c].status = 504]
  /\ UNCHANGED <<proxyVars, ciVars, admVars, cosVars, nvVars, atsVars, stVars, wsVars, clientVars, ovVars, gpVars>>

\* C22: a command that exceeds its timeout is killed, its child process
\* does not keep running after the timeout, and the waiting request gets
\* 504; no request waits on a command longer than the timeout.
C22_TimeoutKills ==
  \A c \in Callers :
    /\ cmd_calls[c].status = 504 => cmd_calls[c].child # "running"
    /\ cmd_calls[c].pc = "waiting" => cmd_calls[c].waited <= CommandTimeout

NextCommand ==
  \/ \E c \in Callers, binary \in Binaries, found \in BOOLEAN : CmdSpawn(c, binary, found)
  \/ CmdTick
  \/ \E c \in Callers, exit_code \in {0, 1} : CmdChildExit(c, exit_code)
  \/ \E c \in Callers : CmdReturn(c)
  \/ \E c \in Callers : CmdTimeout(c)

\* ======================================================================
\* System status server (sek8s/services/system_status.py): GET /overview
\* ======================================================================
\* SERVICE_ALLOWLIST.values(), in the order of the dictionary.
AllowlistOrder ==
  <<"admission-controller", "attestation-service", "k3s", "nvidia-persistenced",
    "nvidia-fabricmanager">>

\* systemctl show <unit> --no-pager --property=...
Systemctl(unit) == [argv0 |-> "systemctl", unit |-> unit, lines |-> 0, since |-> 0]

\* nvidia-smi, without -q and without -i
NvidiaSmi == [argv0 |-> "nvidia-smi", unit |-> <<>>, lines |-> 0, since |-> 0]

\* What dict.get returns: None for a key that is not there.
Absent == [none |-> TRUE, s |-> <<>>]

Present(s) == [none |-> FALSE, s |-> s]

\* _parse_key_value(output).get(key): the lines with an "=" are split at
\* the first one, and a later line replaces an earlier one of the same key.
parse_key_value_get(output, key) ==
  LET lines == splitlines(output)
      hits == {i \in 1..Len(lines) :
                 /\ Contains(lines[i], "=")
                 /\ SubSeq(lines[i], 1, FirstIndex(lines[i], "=") - 1) = <<key>>}
  IN IF hits = {} THEN Absent
     ELSE LET i == CHOOSE h \in hits : \A j \in hits : j <= h
          IN Present(SubSeq(lines[i], FirstIndex(lines[i], "=") + 1, Len(lines[i])))

\* The fields of ServiceStatus and the systemctl property each is read from.
StatusProperties ==
  [load_state |-> "LoadState", active_state |-> "ActiveState", sub_state |-> "SubState",
   unit_file_state |-> "UnitFileState", main_pid |-> "MainPID",
   exit_code |-> "ExecMainCode", exit_status |-> "ExecMainStatus"]

ServiceStatus(output) ==
  [f \in DOMAIN StatusProperties |-> parse_key_value_get(output, StatusProperties[f])]

NoStatus == [f \in DOMAIN StatusProperties |-> Absent]

\* SystemStatusServer._is_service_healthy
is_service_healthy(status) ==
  /\ status.load_state = Present(<<"loaded">>)
  /\ status.active_state = Present(<<"active">>)
  /\ status.sub_state \in {Present(<<"running">>), Present(<<"listening">>), Absent}

NoDetail == Detail("", "", 0, <<>>, FALSE)

\* has_status FALSE: status=None.
ServiceStatusResponse(service_id, has_status, status, healthy, error) ==
  [service |-> service_id, has_status |-> has_status, status |-> status,
   healthy |-> healthy, error |-> error]

NotCollected == ServiceStatusResponse("", FALSE, NoStatus, FALSE, NoDetail)

\* SystemStatusServer._collect_service_status: the entry it returns, or the
\* HTTPException it raises.
collect_service_status(service_id, outcome, config, tolerate_errors) ==
  LET result == run_command(Systemctl(Unit(service_id)), outcome, config.max_output_bytes)
      exc == IF result.raised THEN result.error ELSE ensure_success(result, "systemctl")
      status == ServiceStatus(result.stdout)
  IN IF exc # NoStAnswer
     THEN IF tolerate_errors
          THEN [raised |-> FALSE, error |-> NoStAnswer,
                entry |-> ServiceStatusResponse(service_id, FALSE, NoStatus, FALSE, exc.detail)]
          ELSE [raised |-> TRUE, error |-> exc, entry |-> NotCollected]
     ELSE [raised |-> FALSE, error |-> NoStAnswer,
           entry |-> ServiceStatusResponse(service_id, TRUE, status,
                                           is_service_healthy(status), NoDetail)]

NvidiaSmiResponse(result) ==
  [exit_code |-> result.exit_code, stdout |-> result.stdout, stderr |-> result.stderr,
   stdout_truncated |-> result.stdout_truncated, stderr_truncated |-> result.stderr_truncated,
   status |-> IF result.exit_code = 0 THEN "ok" ELSE "error"]

NoGpu ==
  [exit_code |-> 0, stdout |-> <<>>, stderr |-> <<>>, stdout_truncated |-> FALSE,
   stderr_truncated |-> FALSE, status |-> ""]

\* SystemStatusServer.nvidia_smi(detail=False, gpu="all"), without its
\* cache: _run_command's HTTPException is not caught.
nvidia_smi(outcome, config) ==
  LET result == run_command(NvidiaSmi, outcome, config.max_output_bytes)
  IN IF result.raised THEN [raised |-> TRUE, error |-> result.error, info |-> NoGpu]
     ELSE [raised |-> FALSE, error |-> NoStAnswer, info |-> NvidiaSmiResponse(result)]

\* What the overview call ends with: an OverviewResponse (the timestamp is
\* left out), or the HTTPException that left it.
OverviewResponse(status, services, gpu, from_cache) ==
  [raised |-> FALSE, error |-> NoStAnswer, status |-> status, services |-> services,
   gpu |-> gpu, from_cache |-> from_cache]

OverviewRaised(error) ==
  [raised |-> TRUE, error |-> error, status |-> "", services |-> <<>>, gpu |-> NoGpu,
   from_cache |-> FALSE]

NoOverview == OverviewResponse("", <<>>, NoGpu, FALSE)

\* A gathered sub-query: how its command ended and what it returned.
Task(outcome, entry) == [outcome |-> outcome, entry |-> entry]

NoOutcome == [kind |-> "", exit_code |-> 0, stdout |-> <<>>, stderr |-> <<>>]

Pending == Task(NoOutcome, NotCollected)

\* What systemctl show prints for a unit in the given state; state <<>>:
\* the line is not printed.
Show(load_state, active_state, sub_state) ==
  <<"LoadState", "=", load_state, "\n", "ActiveState", "=", active_state, "\n">>
    \o (IF sub_state = <<>> THEN <<>> ELSE <<"SubState", "=">> \o sub_state \o <<"\n">>)

SystemctlOutcomes ==
  {Exited(0, Show("loaded", "active", <<"running">>), <<>>),
   Exited(0, Show("loaded", "failed", <<"failed">>), <<>>),
   Exited(1, <<>>, <<"not found">>),
   [kind |-> "timeout", exit_code |-> 0, stdout |-> <<>>, stderr |-> <<>>],
   [kind |-> "missing", exit_code |-> 0, stdout |-> <<>>, stderr |-> <<>>]}

NvidiaSmiOutcomes ==
  {Exited(0, <<"GPU 0">>, <<>>),
   Exited(9, <<>>, <<"no devices">>),
   [kind |-> "timeout", exit_code |-> 0, stdout |-> <<>>, stderr |-> <<>>],
   [kind |-> "missing", exit_code |-> 0, stdout |-> <<>>, stderr |-> <<>>]}

\* overview reads only max_output_bytes of the settings: one configuration
\* for each value of it.
OvConfigs ==
  {CHOOSE c \in Configs : c.max_output_bytes = b : b \in {c.max_output_bytes : c \in Configs}}

OvIdle ==
  /\ ov_pc = "idle"
  /\ ov_tasks = [s \in SERVICE_ALLOWLIST |-> Pending]
  /\ ov_gpu = NoGpu
  /\ ov_response = NoOverview
  /\ ov_cache = {}
  /\ ov_smi_cache = {}

\* SystemStatusServer(config), for the overview route.
OvStart(config) ==
  /\ st_config = Unconfigured
  /\ st_config' = config
  /\ UNCHANGED <<st_cache, st_last, proxyVars, ciVars, admVars, cosVars, nvVars, atsVars, wsVars, cmdVars, clientVars, ovVars, gpVars>>

\* GET /overview arrives: the cache decorator answers from its entry, or
\* overview starts one _collect_service_status task per allowlisted service.
OvRequest ==
  /\ st_config # Unconfigured
  /\ ov_pc \in {"idle", "done", "raised"}
  /\ ov_tasks' = [s \in SERVICE_ALLOWLIST |-> Pending]
  /\ ov_gpu' = NoGpu
  /\ IF ov_cache # {}
     THEN /\ ov_pc' = "done"
          /\ ov_response' = [(CHOOSE r \in ov_cache : TRUE) EXCEPT !.from_cache = TRUE]
     ELSE /\ ov_pc' = "gather"
          /\ ov_response' = NoOverview
  /\ UNCHANGED <<ov_cache, ov_smi_cache, proxyVars, ciVars, admVars, cosVars, nvVars, atsVars, stVars, wsVars, cmdVars, clientVars, gpVars>>

\* One of the gathered tasks runs to its end, in any order:
\* _collect_service_status(service, tolerate_errors=True).
OvService(service_id, outcome) ==
  /\ ov_pc = "gather"
  /\ ov_tasks[service_id] = Pending
  /\ ov_tasks' = [ov_tasks EXCEPT ![service_id] =
                    Task(outcome, collect_service_status(service_id, outcome, st_config, TRUE).entry)]
  /\ UNCHANGED <<ov_pc, ov_gpu, ov_response, ov_cache, ov_smi_cache, proxyVars, ciVars, admVars, cosVars, nvVars, atsVars, stVars, wsVars, cmdVars, clientVars, gpVars>>

\* gather has returned; nvidia_smi is awaited (its own cache decorator may
\* answer), and the response is built and stored in overview's cache.  An
\* HTTPException of nvidia_smi leaves overview and nothing is stored.
OvGpu(outcome) ==
  /\ ov_pc = "gather"
  /\ \A s \in SERVICE_ALLOWLIST : ov_tasks[s] # Pending
  /\ LET called == IF ov_smi_cache # {}
                   THEN [raised |-> FALSE, error |-> NoStAnswer,
                         info |-> CHOOSE g \in ov_smi_cache : TRUE]
                   ELSE nvidia_smi(outcome, st_config)
         services == [i \in 1..Len(AllowlistOrder) |-> ov_tasks[AllowlistOrder[i]].entry]
         gpu_healthy == called.info.status = "ok"
         services_healthy == \A i \in 1..Len(services) : services[i].healthy
         response == OverviewResponse(IF services_healthy /\ gpu_healthy THEN "ok" ELSE "degraded",
                                      services, called.info, FALSE)
     IN IF called.raised
        THEN /\ ov_pc' = "raised"
             /\ ov_response' = OverviewRaised(called.error)
             /\ UNCHANGED <<ov_gpu, ov_cache, ov_smi_cache>>
        ELSE /\ ov_pc' = "done"
             /\ ov_gpu' = called.info
             /\ ov_smi_cache' = {called.info}
             /\ ov_response' = response
             /\ ov_cache' = {response}
  /\ UNCHANGED <<ov_tasks, proxyVars, ciVars, admVars, cosVars, nvVars, atsVars, stVars, wsVars, cmdVars, clientVars, gpVars>>

\* The 30 seconds of overview's cache entry are over.
OvExpire ==
  /\ ov_cache # {}
  /\ ov_cache' = {}
  /\ UNCHANGED <<ov_pc, ov_tasks, ov_gpu, ov_response, ov_smi_cache, proxyVars, ciVars, admVars, cosVars, nvVars, atsVars, stVars, wsVars, cmdVars, clientVars, gpVars>>

\* The 60 seconds of nvidia_smi's cache entry are over.
OvSmiExpire ==
  /\ ov_smi_cache # {}
  /\ ov_smi_cache' = {}
  /\ UNCHANGED <<ov_pc, ov_tasks, ov_gpu, ov_response, ov_cache, proxyVars, ciVars, admVars, cosVars, nvVars, atsVars, stVars, wsVars, cmdVars, clientVars, gpVars>>

\* ----------------------------------------------- claims on GET /overview
\* The sub-query of a service failed: its command timed out, was not
\* found or exited non-zero.
SubQueryFailed(task) ==
  task.outcome.kind \in {"timeout", "missing"} \/ task.outcome.exit_code # 0

\* C28: an overview call that was not answered from the cache and has ended
\* has collected every allowlisted service and returns a response with one
\* entry per allowlisted service, in order; the entry of a service whose
\* sub-query failed has healthy = false and the error, and every entry is
\* what that service's own command gives; the status is "ok" exactly when
\* every service is healthy and the GPU command exited 0, and "degraded"
\* otherwise.
C28_Overview ==
  (ov_pc \in {"done", "raised"} /\ ~ov_response.from_cache) =>
    /\ \A s \in SERVICE_ALLOWLIST : ov_tasks[s] # Pending
    /\ ~ov_response.raised
    /\ Len(ov_response.services) = Len(AllowlistOrder)
    /\ \A i \in 1..Len(ov_response.services) :
         LET entry == ov_response.services[i]
             task == ov_tasks[AllowlistOrder[i]]
         IN /\ entry.service = AllowlistOrder[i]
            /\ entry = collect_service_status(AllowlistOrder[i], task.outcome, st_config, TRUE).entry
            /\ SubQueryFailed(task) =>
                 (~entry.healthy /\ entry.error # NoDetail /\ entry.error.error # "")
    /\ ov_response.status =
         IF /\ \A i \in 1..Len(ov_response.services) : ov_response.services[i].healthy
            /\ ov_response.gpu.exit_code = 0
         THEN "ok" ELSE "degraded"

NextOverview ==
  \/ \E config \in OvConfigs : OvStart(config)
  \/ OvRequest
  \/ \E service_id \in SERVICE_ALLOWLIST, outcome \in SystemctlOutcomes :
       OvService(service_id, outcome)
  \/ \E outcome \in NvidiaSmiOutcomes : OvGpu(outcome)
  \/ OvExpire
  \/ OvSmiExpire

\* ======================================================================
\* GPU device provider (sek8s/providers/gpu.py)
\* ======================================================================
MaxGpuCalls == 2

MaxDevices == 2

\* The library calls made for one device, in the order of the loop body.
DeviceCalls ==
  <<"nvmlDeviceGetHandleByIndex", "nvmlDeviceGetName", "nvmlDeviceGetCudaComputeCapability",
    "nvmlDeviceGetUUID", "nvmlDeviceGetMemoryInfo", "nvmlDeviceGetMaxClockInfo",
    "nvmlDeviceGetEccMode">>

\* What nvmlDeviceGetName can report, as words.
DeviceNames == {<<"NVIDIA", "RTX", "A6000">>, <<"H100">>, <<>>}

\* name.lower().split()[-1] for names in lower case; IndexError on a name
\* without a word.
model_short_ref(name) ==
  IF name = <<>> THEN [ok |-> FALSE, ref |-> ""] ELSE [ok |-> TRUE, ref |-> name[Len(name)]]

GpIdle ==
  /\ gp_pc = "idle"
  /\ gp_lib = 0
  /\ gp_calls = 0
  /\ gp_devices = 0
  /\ gp_gpus = <<>>
  /\ gp_trace = <<>>
  /\ gp_raised = "none"

\* GpuDeviceProvider().get_device_info() is called.
GpCall ==
  /\ gp_pc \in {"idle", "returned", "raised"}
  /\ gp_calls < MaxGpuCalls
  /\ gp_calls' = gp_calls + 1
  /\ gp_pc' = "init"
  /\ gp_devices' = 0
  /\ gp_gpus' = <<>>
  /\ gp_trace' = <<>>
  /\ gp_raised' = "none"
  /\ UNCHANGED <<gp_lib, proxyVars, ciVars, admVars, cosVars, nvVars, atsVars, stVars, wsVars, cmdVars, clientVars, ovVars>>

\* pynvml.nvmlInit(): NVMLError is turned into NvmlException.
GpInit(ok) ==
  /\ gp_pc = "init"
  /\ IF ok
     THEN /\ gp_lib' = gp_lib + 1
          /\ gp_trace' = Append(gp_trace, "nvmlInit")
          /\ gp_pc' = "count"
          /\ UNCHANGED gp_raised
     ELSE /\ gp_trace' = Append(gp_trace, "nvmlInit failed")
          /\ gp_pc' = "raised"
          /\ gp_raised' = "NvmlException"
          /\ UNCHANGED gp_lib
  /\ UNCHANGED <<gp_calls, gp_devices, gp_gpus, proxyVars, ciVars, admVars, cosVars, nvVars, atsVars, stVars, wsVars, cmdVars, clientVars, ovVars>>

\* pynvml.nvmlDeviceGetCount()
GpCount(ok, device_count) ==
  /\ gp_pc = "count"
  /\ IF ok
     THEN /\ gp_devices' = device_count
          /\ gp_trace' = Append(gp_trace, "nvmlDeviceGetCount")
          /\ gp_pc' = IF device_count = 0 THEN "shutdown" ELSE "device"
          /\ UNCHANGED gp_raised
     ELSE /\ gp_trace' = Append(gp_trace, "nvmlDeviceGetCount failed")
          /\ gp_pc' = "raised"
          /\ gp_raised' = "NvmlException"
          /\ UNCHANGED gp_devices
  /\ UNCHANGED <<gp_lib, gp_calls, gp_gpus, proxyVars, ciVars, admVars, cosVars, nvVars, atsVars, stVars, wsVars, cmdVars, clientVars, ovVars>>

\* One turn of the loop: the library calls for the next device, the first
\* `made` of which succeed; when all succeed the GPU is built from the name
\* and appended.  A failing library call raises NVMLError, which the except
\* clause turns into NvmlException; the IndexError of a name without a word
\* is not caught.
GpDevice(made, name) ==
  /\ gp_pc = "device"
  /\ made \in 0..Len(DeviceCalls)
  /\ gp_trace' = gp_trace \o SubSeq(DeviceCalls, 1, made)
                   \o (IF made < Len(DeviceCalls)
                       THEN <<"NVMLError">> ELSE <<>>)
  /\ IF made < Len(DeviceCalls)
     THEN /\ gp_pc' = "raised"
          /\ gp_raised' = "NvmlException"
          /\ UNCHANGED gp_gpus
     ELSE IF ~model_short_ref(name).ok
     THEN /\ gp_pc' = "raised"
          /\ gp_raised' = "IndexError"
          /\ UNCHANGED gp_gpus
     ELSE /\ gp_gpus' = Append(gp_gpus, [name |-> name, model_short_ref |-> model_short_ref(name).ref])
          /\ gp_pc' = IF Len(gp_gpus) + 1 = gp_devices THEN "shutdown" ELSE "device"
          /\ UNCHANGED gp_raised
  /\ UNCHANGED <<gp_lib, gp_calls, gp_devices, proxyVars, ciVars, admVars, cosVars, nvVars, atsVars, stVars, wsVars, cmdVars, clientVars, ovVars>>

\* pynvml.nvmlShutdown() after the loop, and the return.
GpShutdown(ok) ==
  /\ gp_pc = "shutdown"
  /\ IF ok
     THEN /\ gp_lib' = gp_lib - 1
          /\ gp_trace' = Append(gp_trace, "nvmlShutdown")
          /\ gp_pc' = "returned"
          /\ UNCHANGED gp_raised
     ELSE /\ gp_trace' = Append(gp_trace, "nvmlShutdown failed")
          /\ gp_pc' = "raised"
          /\ gp_raised' = "NvmlException"
          /\ UNCHANGED gp_lib
  /\ UNCHANGED <<gp_calls, gp_devices, gp_gpus, proxyVars, ciVars, admVars, cosVars, nvVars, atsVars, stVars, wsVars, cmdVars, clientVars, ovVars>>

\* ------------------------------------------ claims on the GPU provider
Called(trace, call) == \E i \in 1..Len(trace) : trace[i] = call

\* C29: a call of get_device_info that initialised the library and has
\* returned or raised has shut it down, so that no initialisation is left
\* open between calls; and a failing library call is raised as
\* NvmlException.
C29_ShutdownAlways ==
  gp_pc \in {"returned", "raised"} =>
    /\ Called(gp_trace, "nvmlInit") => Called(gp_trace, "nvmlShutdown")
    /\ gp_lib = 0
    /\ (\E i \in 1..Len(gp_trace) :
          gp_trace[i] \in {"NVMLError", "nvmlInit failed", "nvmlDeviceGetCount failed",
                           "nvmlShutdown failed"}) =>
         gp_raised = "NvmlException"

NextGpu ==
  \/ GpCall
  \/ \E ok \in BOOLEAN : GpInit(ok)
  \/ \E ok \in BOOLEAN, device_count \in 0..MaxDevices : GpCount(ok, device_count)
  \/ \E made \in 0..Len(DeviceCalls), name \in DeviceNames : GpDevice(made, name)
  \/ \E ok \in BOOLEAN : GpShutdown(ok)

\* Authentication and forwarding, one request at a time, every kind of request.
NextAuth ==
  \/ \E route \in {"server", "service"}, v \in {<<>>, <<"hkA">>, <<"hkX">>},
        nk \in NonceKinds, b \in {<<>>, <<"sha256-of-body">>}, sk \in SignatureKinds :
       Receive(1, ExternalRequest(now, route, v, nk, b, sk))
  \/ \E sv \in Servers, target \in Targets, h \in BOOLEAN :
       Receive(1, OtherRequest(now, sv, target, h))
  \/ \E o \in Outcomes, late \in BOOLEAN : Attempt(1, o, late)
  \/ Finish(1)

\* A validator's signed requests and an eavesdropper's replays of the first
\* one, as the clock advances.
NextReplay ==
  \/ \E d \in {1, NONCE_MAX_AGE_SECONDS - 1} : Tick(d)
  \/ \E s \in Slots, route \in {"server", "service"}, nk \in {"oldest", "current"} :
       Receive(s, ExternalRequest(now, route, <<"hkA">>, nk, <<>>, "good"))
  \/ \E s \in Slots : captured # NoReq /\ Receive(s, captured)
  \/ \E s \in Slots : Attempt(s, "response200", FALSE)
  \/ \E s \in Slots : Finish(s)

\* The failure counter and /health under concurrent internal requests.
NextProxy ==
  \/ \E s \in Slots, target \in Targets :
       Receive(s, OtherRequest(now, <<"0.0.0.0", INTERNAL_PORT>>, target, FALSE))
  \/ \E s \in Slots, o \in Outcomes, late \in BOOLEAN : Attempt(s, o, late)
  \/ \E s \in Slots : Finish(s)
  \/ HealthCheck
  \/ \E k \in {"socket", "absent", "notsocket", "staterror"} : SocketChange(k)

Init == ProxyInit /\ CiIdle /\ AdmIdle /\ CosIdle /\ NvIdle /\ AtsIdle /\ StIdle /\ WsIdle /\ CmdIdle /\ ClientsStarted /\ OvIdle /\ GpIdle

SpecAuth == Init /\ [][NextAuth]_vars

SpecReplay == Init /\ [][NextReplay]_vars

SpecProxy == Init /\ [][NextProxy]_vars

SpecCloudInit == Init /\ [][NextCloudInit]_vars

SpecAdmission == Init /\ [][NextAdmission]_vars

SpecCosign == Init /\ [][NextCosign]_vars

SpecNonce == Init /\ [][NextNonce]_vars

SpecAttestation == Init /\ [][NextAttestation]_vars

SpecStatus == Init /\ [][NextStatus]_vars

SpecWebServer == Init /\ [][NextWebServer]_vars

SpecCommand == Init /\ [][NextCommand]_vars

SpecOverview == Init /\ [][NextOverview]_vars

SpecGpu == Init /\ [][NextGpu]_vars

====
